---- MODULE Spec2Model ----
(***************************************************************************)
(* Model of the regexp compiler of yara-x (src/yara-x/src/re/compiler.rs). *)
(*                                                                         *)
(* The compiler walks the HIR of a regular expression with the visitor of  *)
(* regex_syntax and, callback by callback, emits the forward and the       *)
(* backward code for the Pike VM and keeps the best atoms found so far.    *)
(* One action of the model is one visitor callback (visit_pre, visit_post, *)
(* visit_alternation_in, visit_concat_in) or the tail of compile().        *)
(***************************************************************************)
EXTENDS Integers, Sequences, FiniteSets, TLC

(***************************************************************************)
(* Bounds of the model.                                                    *)
(***************************************************************************)
\* Largest weight of an input HIR (see Weight below).
MaxSize == 5
\* Length of the long repetitions of LargeHirs.
BigCount == 10
\* Iterations beyond min taken of an unbounded repetition when the strings
\* that a HIR matches are listed, and the largest number of strings listed.
ExtraRepeats == 1
MaxLang == 600

(***************************************************************************)
(* Program constants.                                                      *)
(***************************************************************************)
DESIRED_ATOM_SIZE == 4
MAX_ATOMS_PER_REGEXP == 4096
OPCODE_PREFIX == 170
\* Width in bits of re::instr::Offset (i16).
OFFSET_BITS == 16
\* i32::MIN, the min_quality of an empty RegexpAtoms.
I32_MIN == -2147483647 - 1
\* Limits given to the literal extractor in Compiler::new.
LIMIT_CLASS == 256
LIMIT_TOTAL == 512
\* Size in bytes of the bitmap of a CLASS instruction.
CLASS_BITMAP_SIZE == 32

Min2(a, b) == IF a < b THEN a ELSE b
Max2(a, b) == IF a > b THEN a ELSE b

\* Option<T>: None is <<>>, Some(x) is <<x>>.
None == <<>>
Some(x) == <<x>>
IsSome(o) == Len(o) = 1
Unwrap(o) == o[1]

(***************************************************************************)
(* The HIR (regex_syntax::hir::Hir), as far as the compiler reads it.      *)
(***************************************************************************)
HirEmpty ==
    [kind |-> "Empty", bytes |-> <<>>, look |-> "", min |-> 0, max |-> None,
     greedy |-> TRUE, subs |-> <<>>]
HirLiteral(bs) == [HirEmpty EXCEPT !.kind = "Literal", !.bytes = bs]
\* A byte class, given by the bytes it contains.
HirClass(bs) == [HirEmpty EXCEPT !.kind = "Class", !.bytes = bs]
HirLook(l) == [HirEmpty EXCEPT !.kind = "Look", !.look = l]
HirCapture(h) == [HirEmpty EXCEPT !.kind = "Capture", !.subs = <<h>>]
HirConcat(hs) == [HirEmpty EXCEPT !.kind = "Concat", !.subs = hs]
HirAlternation(hs) == [HirEmpty EXCEPT !.kind = "Alternation", !.subs = hs]
HirRepetition(p, h) ==
    [HirEmpty EXCEPT !.kind = "Repetition", !.min = p[1], !.max = p[2],
                     !.greedy = p[3], !.subs = <<h>>]

\* hir.properties().look_set().is_empty() is ~HasLook(hir).
RECURSIVE HasLook(_)
HasLook(h) ==
    \/ h.kind = "Look"
    \/ \E i \in 1..Len(h.subs) : HasLook(h.subs[i])

\* The node of h at path p (a sequence of child indices).
RECURSIVE NodeAt(_, _)
NodeAt(h, p) == IF p = <<>> THEN h ELSE NodeAt(h.subs[Head(p)], Tail(p))

(***************************************************************************)
(* The inputs of the model.                                                *)
(***************************************************************************)
\* A short literal, and a literal longer than DESIRED_ATOM_SIZE whose best
\* atom does not start at its first byte and whose first byte is the opcode
\* prefix (emitted escaped).
ShortLiteral == <<97, 49>>
LongLiteral == <<170, 0, 49, 97, 49, 49>>
SmallClass == <<49, 50>>

Leaves ==
    {HirEmpty, HirLiteral(ShortLiteral), HirLiteral(LongLiteral),
     HirClass(SmallClass), HirLook("WordAscii")}

\* The (min, max, greedy) of the repetitions of the inputs.
RepParams ==
    {<<0, None, TRUE>>, <<0, None, FALSE>>, <<1, None, TRUE>>,
     <<2, None, TRUE>>, <<3, None, FALSE>>, <<4, None, TRUE>>,
     <<0, Some(0), TRUE>>, <<0, Some(1), TRUE>>, <<0, Some(2), FALSE>>,
     <<1, Some(2), TRUE>>, <<2, Some(2), TRUE>>, <<2, Some(3), FALSE>>}

\* Weight of a HIR: one per node, two per repetition.  HirParts(lv, n) is the
\* HIRs of weight n, one set for each kind and each split of the weight among
\* the children, given the sets lv[k] of the HIRs of the weights k below n.
NaryKinds == {"Concat", "Alternation"}
HirNary(k, hs) == IF k = "Concat" THEN HirConcat(hs) ELSE HirAlternation(hs)
HirParts(lv, n) ==
    LET W(k) == IF k \in 1..Len(lv) THEN lv[k] ELSE {} IN
    {IF n = 1 THEN Leaves ELSE {},
     {HirCapture(h) : h \in W(n - 1)},
     {HirRepetition(p, h) : p \in RepParams, h \in W(n - 2)}}
    \cup {{HirNary(k, <<a, b>>) :
             k \in NaryKinds, a \in W(i), b \in W(n - 1 - i)} :
          i \in 1..(n - 2)}
    \cup {{HirNary(k, <<a, b, c>>) :
             k \in NaryKinds, a \in W(i), b \in W(j),
             c \in W(n - 1 - i - j)} :
          i \in 1..(n - 3), j \in 1..(n - 3)}
RECURSIVE HirsUpTo(_)
HirsUpTo(n) ==
    IF n <= 0 THEN <<>>
    ELSE LET lv == HirsUpTo(n - 1) IN Append(lv, UNION HirParts(lv, n))

\* Inputs whose code is about as long as an Offset can span: a class takes
\* 34 bytes, Body2 BigCount^2 of them and Body3 BigCount^3.
Exactly(n, h) == HirRepetition(<<n, Some(n), TRUE>>, h)
Body2 == Exactly(BigCount, Exactly(BigCount, HirClass(SmallClass)))
Body3 == Exactly(BigCount, Body2)
LargeHirs ==
    {HirRepetition(<<0, Some(BigCount), TRUE>>, Body2),
     HirRepetition(<<0, Some(BigCount - 1), FALSE>>, Body2),
     HirRepetition(<<0, None, TRUE>>, Body3),
     HirRepetition(<<1, None, FALSE>>, Body3),
     HirRepetition(<<2, None, TRUE>>, Body3),
     HirAlternation(<<Body3, HirEmpty>>),
     HirAlternation(<<HirLiteral(ShortLiteral), Body3>>),
     HirConcat(<<Body3, HirLiteral(LongLiteral)>>),
     HirConcat(<<HirAlternation(<<HirEmpty, Body3>>), HirLiteral(LongLiteral)>>)}

\* The alternation of three literals and the e{3,} over a literal that the
\* description of the compiler gives as examples, and an alternation of two
\* literals of different quality.
Foo == <<102, 111, 111>>
Bar == <<98, 97, 114>>
Baz == <<98, 97, 122>>
Xy == <<120, 121>>
ScenarioHirs ==
    {HirAlternation(<<HirLiteral(Foo), HirLiteral(Bar), HirLiteral(Baz)>>),
     HirAlternation(<<HirLiteral(Xy), HirLiteral(Foo)>>),
     HirRepetition(<<3, None, TRUE>>, HirLiteral(Xy)),
     HirConcat(<<HirRepetition(<<0, None, TRUE>>, HirLiteral(Xy)),
                 HirLiteral(ShortLiteral), HirLiteral(ShortLiteral)>>)}

\* Inputs with many atoms: a concat of two classes of 64 bytes has 64 * 64
\* of them, which is MAX_ATOMS_PER_REGEXP.
ClassOfSize(n) == HirClass([i \in 1..n |-> 47 + i])
Wide == HirConcat(<<ClassOfSize(64), ClassOfSize(64)>>)
\* ((|[0-F])[0-E])*: the literal extractor finds 24 * 22 > LIMIT_TOTAL
\* literals in the concat, the first of them empty.
OverTotal ==
    HirRepetition(<<0, None, TRUE>>,
        HirConcat(<<HirAlternation(<<HirEmpty, ClassOfSize(23)>>), ClassOfSize(22)>>))
WideHirs ==
    {Wide, OverTotal,
     HirConcat(<<ClassOfSize(65), ClassOfSize(64)>>),
     HirAlternation(<<Wide, Wide>>),
     HirAlternation(<<Wide, HirLiteral(LongLiteral)>>)}

(***************************************************************************)
(* Instruction sequences (re::instr::InstrSeq).  A sequence is the map     *)
(* from the byte offset at which an instruction starts to the instruction, *)
(* with its length in bytes; an instruction records its size in bytes, its *)
(* operands and how many times it was patched.                             *)
(***************************************************************************)
OFFSET_SIZE == OFFSET_BITS \div 8

NewInstrSeq(id) == [seq_id |-> id, len |-> 0, at |-> <<>>]

\* OPCODE_PREFIX, the opcode, no operand.
Instr(op) == [op |-> op, arg |-> <<>>, size |-> 2, patches |-> 0]
\* JUMP, SPLIT_A, SPLIT_B: one offset, zero until patched.
InstrWithOffset(op) ==
    [op |-> op, arg |-> <<0>>, size |-> 2 + OFFSET_SIZE, patches |-> 0]
\* SPLIT_N: the number of alternatives and one offset for each.
InstrSplitN(n) ==
    [op |-> "SPLIT_N", arg |-> [i \in 1..n |-> 0],
     size |-> 2 + 1 + n * OFFSET_SIZE, patches |-> 0]
\* A literal byte is emitted as itself, the opcode prefix escaped.
LiteralByteLength(b) == IF b = OPCODE_PREFIX THEN 2 ELSE 1
InstrByte(b) ==
    [op |-> "BYTE", arg |-> <<b>>, size |-> LiteralByteLength(b), patches |-> 0]
InstrMaskedByte(b, mask) ==
    [op |-> "MASKED_BYTE", arg |-> <<b, mask>>, size |-> 4, patches |-> 0]
InstrClass(bs) ==
    [op |-> "CLASS", arg |-> bs, size |-> 2 + CLASS_BITMAP_SIZE, patches |-> 0]

IsOffsetInstr(i) == i.op \in {"JUMP", "SPLIT_A", "SPLIT_B"}

RECURSIVE literal_code_length(_)
literal_code_length(bs) ==
    IF bs = <<>> THEN 0
    ELSE LiteralByteLength(Head(bs)) + literal_code_length(Tail(bs))

Reverse(s) == [i \in 1..Len(s) |-> s[Len(s) + 1 - i]]

SeqEmitInstr(s, ins) ==
    [s EXCEPT !.len = @ + ins.size, !.at = (s.len :> ins) @@ @]

RECURSIVE SeqEmitLiteral(_, _)
SeqEmitLiteral(s, bs) ==
    IF bs = <<>> THEN s
    ELSE SeqEmitLiteral(SeqEmitInstr(s, InstrByte(Head(bs))), Tail(bs))

\* The instructions of s that start in [a, b), moved by d bytes.
Moved(s, a, b, d) ==
    [o \in {x + d : x \in {y \in DOMAIN s.at : a <= y /\ y < b}} |-> s.at[o - d]]

\* Both ends of the range [a, b) are instruction boundaries of s.
Aligned(s, a) == a = s.len \/ a \in DOMAIN s.at
ValidRange(s, a, b) == a <= b /\ b <= s.len /\ Aligned(s, a) /\ Aligned(s, b)

\* emit_clone copies the bytes [a, b) to the end; the operands are relative
\* to the start of their instruction and keep their value.
SeqEmitClone(s, a, b) ==
    [s EXCEPT !.len = @ + (b - a), !.at = Moved(s, a, b, s.len - a) @@ @]

SeqAppend(s, other) ==
    [s EXCEPT !.len = @ + other.len,
              !.at = Moved(other, 0, other.len, s.len) @@ @]

\* patch_instr expects a JUMP, SPLIT_A or SPLIT_B at the location.
CanPatchInstr(s, loc) == loc \in DOMAIN s.at /\ IsOffsetInstr(s.at[loc])
SeqPatchInstr(s, loc, off) ==
    [s EXCEPT !.at[loc].arg = <<off>>, !.at[loc].patches = @ + 1]

\* patch_split_n expects a SPLIT_N with as many offsets as it is given.
CanPatchSplitN(s, loc, offs) ==
    /\ loc \in DOMAIN s.at
    /\ s.at[loc].op = "SPLIT_N"
    /\ Len(s.at[loc].arg) = Len(offs)
SeqPatchSplitN(s, loc, offs) ==
    [s EXCEPT !.at[loc].arg = offs, !.at[loc].patches = @ + 1]

(***************************************************************************)
(* Location and Offset.                                                    *)
(***************************************************************************)
Loc(f, id, b) == [fwd |-> f, bck_seq_id |-> id, bck |-> b]

FitsOffset(d) == -(2 ^ (OFFSET_BITS - 1)) <= d /\ d <= 2 ^ (OFFSET_BITS - 1) - 1

\* Location::sub narrowing with a cast (as Offset) that wraps around.
LocationSubWrapping(l, rhs) ==
    LET Wrap(d) == ((d + 2 ^ (OFFSET_BITS - 1)) % (2 ^ OFFSET_BITS))
                   - 2 ^ (OFFSET_BITS - 1)
    IN Some([fwd |-> Wrap(l.fwd - rhs.fwd), bck |-> Wrap(l.bck - rhs.bck)])

\* Location::sub: None stands for Err(TooLarge).
LocationSub(l, rhs) ==
    IF FitsOffset(l.fwd - rhs.fwd) /\ FitsOffset(l.bck - rhs.bck)
    THEN Some([fwd |-> l.fwd - rhs.fwd, bck |-> l.bck - rhs.bck])
    ELSE None

(***************************************************************************)
(* The compiler (struct Compiler) as a record c; err is "" while no        *)
(* callback has failed, then "TooLarge" (the Err of compile) or "panic"    *)
(* (an unwrap, an assertion or an arithmetic check that fails).  Once err  *)
(* is set the rest of the callback does not run.                           *)
(***************************************************************************)
Last(s) == s[Len(s)]
Front(s) == SubSeq(s, 1, Len(s) - 1)

backward_code_of(c) ==
    IF c.backward_code_chunks = <<>> THEN c.backward_code
    ELSE Last(c.backward_code_chunks)

\* backward_code_mut(): writes s over the current backward code.
SetBackwardCode(c, s) ==
    IF c.backward_code_chunks = <<>> THEN [c EXCEPT !.backward_code = s]
    ELSE [c EXCEPT !.backward_code_chunks[Len(c.backward_code_chunks)] = s]


\* location() that always names the root backward code.
location_in_root(c) ==
    Loc(c.forward_code.len, c.backward_code.seq_id, backward_code_of(c).len)

location(c) ==
    Loc(c.forward_code.len, backward_code_of(c).seq_id, backward_code_of(c).len)

Fail(c, e) == IF c.err = "" THEN [c EXCEPT !.err = e] ELSE c

\* emit_instr, emit_split_n, emit_masked_byte, emit_class: the same
\* instruction goes to both streams; the Location returned is location(c)
\* taken before the call.
emit(c, ins) ==
    IF c.err # "" THEN c
    ELSE SetBackwardCode(
             [c EXCEPT !.forward_code = SeqEmitInstr(@, ins)],
             SeqEmitInstr(backward_code_of(c), ins))

emit_literal(c, bs) ==
    IF c.err # "" THEN c
    ELSE SetBackwardCode(
             [c EXCEPT !.forward_code = SeqEmitLiteral(@, bs)],
             SeqEmitLiteral(backward_code_of(c), Reverse(bs)))

\* emit_clone that copies the forward code only.
emit_clone_forward_only(c, start, end) ==
    IF c.err # "" THEN c
    ELSE IF ~(start.fwd <= end.fwd /\ end.fwd <= c.forward_code.len
              /\ start.bck <= end.bck /\ end.bck <= backward_code_of(c).len)
    THEN Fail(c, "panic")
    ELSE [c EXCEPT !.forward_code = SeqEmitClone(@, start.fwd, end.fwd)]

emit_clone(c, start, end) ==
    IF c.err # "" THEN c
    ELSE IF ~(start.fwd <= end.fwd /\ end.fwd <= c.forward_code.len
              /\ start.bck <= end.bck /\ end.bck <= backward_code_of(c).len)
    THEN Fail(c, "panic")
    ELSE SetBackwardCode(
             [c EXCEPT !.forward_code = SeqEmitClone(@, start.fwd, end.fwd)],
             SeqEmitClone(backward_code_of(c), start.bck, end.bck))

\* patch_instr(location, target.sub(location)?)
patch_instr(c, loc, target) ==
    LET off == LocationSub(target, loc) IN
    IF c.err # "" THEN c
    ELSE IF off = None THEN Fail(c, "TooLarge")
    ELSE IF ~(CanPatchInstr(c.forward_code, loc.fwd)
              /\ CanPatchInstr(backward_code_of(c), loc.bck))
    THEN Fail(c, "panic")
    ELSE SetBackwardCode(
             [c EXCEPT !.forward_code = SeqPatchInstr(@, loc.fwd, Unwrap(off).fwd)],
             SeqPatchInstr(backward_code_of(c), loc.bck, Unwrap(off).bck))

\* patch_split_n writing the offsets in the opposite order.
patch_split_n_backwards(c, loc, targets) ==
    LET n == Len(targets)
        offs == [i \in 1..n |-> LocationSub(targets[n + 1 - i], loc)]
        fwd == [i \in 1..n |-> Unwrap(offs[i]).fwd]
        bck == [i \in 1..n |-> Unwrap(offs[i]).bck]
    IN
    IF c.err # "" THEN c
    ELSE IF \E i \in 1..n : offs[i] = None THEN Fail(c, "TooLarge")
    ELSE IF ~(CanPatchSplitN(c.forward_code, loc.fwd, fwd)
              /\ CanPatchSplitN(backward_code_of(c), loc.bck, bck))
    THEN Fail(c, "panic")
    ELSE SetBackwardCode(
             [c EXCEPT !.forward_code = SeqPatchSplitN(@, loc.fwd, fwd)],
             SeqPatchSplitN(backward_code_of(c), loc.bck, bck))

\* patch_split_n(location, offsets), the offsets being targets[i].sub(location)?
patch_split_n(c, loc, targets) ==
    LET offs == [i \in 1..Len(targets) |-> LocationSub(targets[i], loc)]
        fwd == [i \in 1..Len(targets) |-> Unwrap(offs[i]).fwd]
        bck == [i \in 1..Len(targets) |-> Unwrap(offs[i]).bck]
    IN
    IF c.err # "" THEN c
    ELSE IF \E i \in 1..Len(targets) : offs[i] = None THEN Fail(c, "TooLarge")
    ELSE IF ~(CanPatchSplitN(c.forward_code, loc.fwd, fwd)
              /\ CanPatchSplitN(backward_code_of(c), loc.bck, bck))
    THEN Fail(c, "panic")
    ELSE SetBackwardCode(
             [c EXCEPT !.forward_code = SeqPatchSplitN(@, loc.fwd, fwd)],
             SeqPatchSplitN(backward_code_of(c), loc.bck, bck))

push_bookmark(c, l) ==
    IF c.err # "" THEN c ELSE [c EXCEPT !.bookmarks = Append(@, l)]

\* bookmarks.pop().unwrap(): the value is Last(c.bookmarks).
pop_bookmark(c) ==
    IF c.err # "" THEN c
    ELSE IF c.bookmarks = <<>> THEN Fail(c, "panic")
    ELSE [c EXCEPT !.bookmarks = Front(@)]
\* The bookmark that the k-th pop from c returns (k = 1 is the top).
Bookmark(c, k) ==
    IF Len(c.bookmarks) >= k THEN c.bookmarks[Len(c.bookmarks) + 1 - k]
    ELSE Loc(0, 0, 0)

(***************************************************************************)
(* Atoms (crate::compiler::Atom).                                          *)
(***************************************************************************)
Atom(bs, e, bt) == [bytes |-> bs, exact |-> e, backtrack |-> bt]

\* Quality of a byte: common bytes are penalized, letters score less than
\* the rest.
ByteQuality(b) ==
    IF b \in {0, 32, 144, 204, 255} THEN 12
    ELSE IF (97 <= b /\ b <= 122) \/ (65 <= b /\ b <= 90) THEN 18
    ELSE 20

RECURSIVE atom_quality(_)
atom_quality(bs) ==
    IF bs = <<>> THEN 0 ELSE ByteQuality(Head(bs)) + atom_quality(Tail(bs))

\* The window of at most n bytes with the best quality, the first one
\* among equals; backtrack is where the window starts.
best_atom_from_slice(bs, n) ==
    LET w == Min2(n, Len(bs))
        Window(i) == SubSeq(bs, i + 1, i + w)
        starts == 0..(Len(bs) - w)
        best == CHOOSE i \in starts :
                    \A j \in starts :
                        \/ atom_quality(Window(i)) > atom_quality(Window(j))
                        \/ atom_quality(Window(i)) = atom_quality(Window(j)) /\ i <= j
    IN Atom(Window(best), Len(bs) <= n, best)

(***************************************************************************)
(* Literal sequences (regex_syntax::hir::literal::Seq) and the literal     *)
(* extractor with the limits set in Compiler::new.  A Seq is infinite      *)
(* (finite = FALSE) or a list of literals, each exact or inexact.          *)
(***************************************************************************)
Lit(bs, e) == [bytes |-> bs, exact |-> e]
SeqInfinite == [finite |-> FALSE, lits |-> <<>>]
SeqOf(ls) == [finite |-> TRUE, lits |-> ls]
SeqSingleton(l) == SeqOf(<<l>>)

\* Seq::len, Seq::max_literal_len, Seq::min_literal_len: None when infinite
\* (and, for the last two, when there is no literal).
SeqLen(q) == IF q.finite THEN Some(Len(q.lits)) ELSE None
MaxLiteralLen(q) ==
    IF ~q.finite \/ q.lits = <<>> THEN None
    ELSE Some(CHOOSE m \in {Len(q.lits[i].bytes) : i \in 1..Len(q.lits)} :
                  \A i \in 1..Len(q.lits) : Len(q.lits[i].bytes) <= m)
MinLiteralLen(q) ==
    IF ~q.finite \/ q.lits = <<>> THEN None
    ELSE Some(CHOOSE m \in {Len(q.lits[i].bytes) : i \in 1..Len(q.lits)} :
                  \A i \in 1..Len(q.lits) : Len(q.lits[i].bytes) >= m)

SeqMakeInexact(q) ==
    [q EXCEPT !.lits = [i \in 1..Len(q.lits) |-> Lit(q.lits[i].bytes, FALSE)]]

\* Seq::is_inexact: infinite, or no literal is exact.
SeqIsInexact(q) == ~q.finite \/ \A i \in 1..Len(q.lits) : ~q.lits[i].exact

\* Seq::dedup: adjacent literals with the same bytes become one, inexact
\* if the two differ in exactness.
RECURSIVE DedupLits(_)
DedupLits(ls) ==
    IF Len(ls) <= 1 THEN ls
    ELSE LET half == Len(ls) \div 2
             a == DedupLits(SubSeq(ls, 1, half))
             b == DedupLits(SubSeq(ls, half + 1, Len(ls)))
         IN
         IF a[Len(a)].bytes = Head(b).bytes
         THEN SubSeq(a, 1, Len(a) - 1)
              \o <<Lit(Head(b).bytes, a[Len(a)].exact /\ Head(b).exact)>>
              \o Tail(b)
         ELSE a \o b
SeqDedup(q) == [q EXCEPT !.lits = DedupLits(@)]

\* Seq::keep_first_bytes: a literal that is cut becomes inexact.
SeqKeepFirstBytes(q, n) ==
    [q EXCEPT !.lits =
        [i \in 1..Len(q.lits) |->
            IF Len(q.lits[i].bytes) > n
            THEN Lit(SubSeq(q.lits[i].bytes, 1, n), FALSE)
            ELSE q.lits[i]]]

\* Seq::max_cross_len, Seq::max_union_len
MaxCrossLen(q1, q2) ==
    IF q1.finite /\ q2.finite THEN Some(Len(q1.lits) * Len(q2.lits)) ELSE None
MaxUnionLen(q1, q2) ==
    IF q1.finite /\ q2.finite THEN Some(Len(q1.lits) + Len(q2.lits)) ELSE None

RECURSIVE FlattenSeqs(_)
FlattenSeqs(ss) ==
    IF ss = <<>> THEN <<>>
    ELSE IF Len(ss) = 1 THEN ss[1]
    ELSE FlattenSeqs(SubSeq(ss, 1, Len(ss) \div 2))
         \o FlattenSeqs(SubSeq(ss, Len(ss) \div 2 + 1, Len(ss)))

\* Seq::cross_forward: every exact literal of q1 is continued by every
\* literal of q2; an inexact literal of q1 stays as it is.
SeqCrossForward(q1, q2) ==
    IF ~q2.finite
    THEN (IF MinLiteralLen(q1) = Some(0) THEN SeqInfinite ELSE SeqMakeInexact(q1))
    ELSE IF ~q1.finite THEN q1
    ELSE SeqDedup(SeqOf(FlattenSeqs(
             [i \in 1..Len(q1.lits) |->
                 IF ~q1.lits[i].exact THEN <<q1.lits[i]>>
                 ELSE [j \in 1..Len(q2.lits) |->
                          Lit(q1.lits[i].bytes \o q2.lits[j].bytes,
                              q2.lits[j].exact)]])))

\* Seq::union
SeqUnion(q1, q2) ==
    IF ~q2.finite THEN SeqInfinite
    ELSE IF ~q1.finite THEN q1
    ELSE SeqDedup(SeqOf(q1.lits \o q2.lits))

\* Seq::longest_common_prefix
RECURSIVE CommonPrefixLen(_, _)
CommonPrefixLen(ls, k) ==
    IF /\ \A i \in 1..Len(ls) : Len(ls[i].bytes) > k
       /\ \A i \in 1..Len(ls) : ls[i].bytes[k + 1] = ls[1].bytes[k + 1]
    THEN CommonPrefixLen(ls, k + 1)
    ELSE k
LongestCommonPrefix(q) ==
    IF ~q.finite \/ q.lits = <<>> THEN None
    ELSE Some(SubSeq(q.lits[1].bytes, 1, CommonPrefixLen(q.lits, 0)))

\* Extractor::cross and Extractor::union, with limit_total = LIMIT_TOTAL and
\* limit_literal_len = DESIRED_ATOM_SIZE.
OverLimit(len) == len # None /\ Unwrap(len) > LIMIT_TOTAL
ExtractorCross(q1, q2) ==
    LET q2b == IF OverLimit(MaxCrossLen(q1, q2)) THEN SeqInfinite ELSE q2 IN
    SeqKeepFirstBytes(SeqCrossForward(q1, q2b), DESIRED_ATOM_SIZE)
ExtractorUnion(q1, q2) ==
    IF OverLimit(MaxUnionLen(q1, q2))
    THEN LET a == SeqDedup(SeqKeepFirstBytes(q1, 4))
             b == SeqDedup(SeqKeepFirstBytes(q2, 4))
         IN SeqUnion(a, IF OverLimit(MaxUnionLen(a, b)) THEN SeqInfinite ELSE b)
    ELSE SeqUnion(q1, q2)

RECURSIVE CrossTimes(_, _, _)
CrossTimes(q, sub, k) ==
    IF k = 0 \/ SeqIsInexact(q) THEN q
    ELSE CrossTimes(ExtractorCross(q, sub), sub, k - 1)

\* Extractor::extract (prefix literals).
RECURSIVE Extract(_)
RECURSIVE ExtractConcat(_, _)
RECURSIVE ExtractAlternation(_, _)
ExtractConcat(q, hs) ==
    IF hs = <<>> \/ SeqIsInexact(q) THEN q
    ELSE ExtractConcat(ExtractorCross(q, Extract(Head(hs))), Tail(hs))
ExtractAlternation(q, hs) ==
    IF hs = <<>> \/ ~q.finite THEN q
    ELSE ExtractAlternation(ExtractorUnion(q, Extract(Head(hs))), Tail(hs))
ExtractRepetition(h) ==
    LET subseq == Extract(h.subs[1])
        empty == SeqSingleton(Lit(<<>>, TRUE))
        limit == DESIRED_ATOM_SIZE
    IN
    IF h.min = 0
    THEN LET sub == IF h.max # Some(1) THEN SeqMakeInexact(subseq) ELSE subseq IN
         IF h.greedy THEN ExtractorUnion(sub, empty)
         ELSE ExtractorUnion(empty, sub)
    ELSE LET q == CrossTimes(empty, subseq, Min2(h.min, limit)) IN
         IF h.max = Some(h.min) /\ h.min <= limit THEN q ELSE SeqMakeInexact(q)
Extract(h) ==
    CASE h.kind \in {"Empty", "Look"} -> SeqSingleton(Lit(<<>>, TRUE))
      [] h.kind = "Literal" ->
             SeqKeepFirstBytes(SeqSingleton(Lit(h.bytes, TRUE)), DESIRED_ATOM_SIZE)
      [] h.kind = "Class" ->
             IF Len(h.bytes) > LIMIT_CLASS THEN SeqInfinite
             ELSE SeqOf([i \in 1..Len(h.bytes) |-> Lit(<<h.bytes[i]>>, TRUE)])
      [] h.kind = "Repetition" -> ExtractRepetition(h)
      [] h.kind = "Capture" -> Extract(h.subs[1])
      [] h.kind = "Concat" -> ExtractConcat(SeqSingleton(Lit(<<>>, TRUE)), h.subs)
      [] h.kind = "Alternation" -> ExtractAlternation(SeqOf(<<>>), h.subs)

\* simplify_seq: 256 literals that differ only in their last byte become
\* their common prefix, inexact.
simplify_seq(q) ==
    IF /\ SeqLen(q) = Some(256)
       /\ MaxLiteralLen(q) # None
       /\ Unwrap(MaxLiteralLen(q)) > 1
       /\ LongestCommonPrefix(q) # None
       /\ Len(Unwrap(LongestCommonPrefix(q))) = Unwrap(MaxLiteralLen(q)) - 1
    THEN SeqSingleton(Lit(Unwrap(LongestCommonPrefix(q)), FALSE))
    ELSE q

\* The loop of concat_seq over the sequences qs (at most DESIRED_ATOM_SIZE
\* of them); the value is <<result, seqs_added>>.
RECURSIVE ConcatSeqLoop(_, _, _)
ConcatSeqLoop(result, qs, added) ==
    IF qs = <<>> THEN <<result, added>>
    ELSE LET q == Head(qs)
             cross == MaxCrossLen(result, q)
         IN
         IF cross = None \/ Unwrap(cross) > MAX_ATOMS_PER_REGEXP
         THEN <<result, added>>
         ELSE IF Len(qs) = 1 /\ SeqLen(q) = Some(256) /\ MaxLiteralLen(q) = Some(1)
         THEN <<result, added>>
         ELSE IF SeqIsInexact(result) THEN <<result, added>>
         ELSE ConcatSeqLoop(SeqCrossForward(result, q), Tail(qs), added + 1)

\* concat_seq: None, or Some(seq).
concat_seq(qs) ==
    IF qs # <<>> /\
       (\/ SeqLen(qs[1]) = None
        \/ SeqLen(qs[1]) = Some(256) /\ MaxLiteralLen(qs[1]) \in {Some(1), None})
    THEN None
    ELSE LET r == ConcatSeqLoop(SeqSingleton(Lit(<<>>, TRUE)),
                                SubSeq(qs, 1, Min2(Len(qs), DESIRED_ATOM_SIZE)), 0)
             res == IF r[2] < Len(qs) THEN SeqMakeInexact(r[1]) ELSE r[1]
         IN Some(simplify_seq(SeqDedup(SeqKeepFirstBytes(res, DESIRED_ATOM_SIZE))))

\* seq_to_atoms: None for an infinite sequence.
seq_to_atoms(q) ==
    IF ~q.finite THEN None
    ELSE Some([i \in 1..Len(q.lits) |-> Atom(q.lits[i].bytes, q.lits[i].exact, 0)])

\* seq_quality: None for an infinite sequence, else the quality of the
\* worst literal.  SeqQuality::min() is the least quality.
MinQuality(as) ==
    LET qs == {atom_quality(as[i].bytes) : i \in 1..Len(as)} IN
    CHOOSE q \in qs : \A r \in qs : q <= r
seq_quality(q) ==
    IF ~q.finite \/ q.lits = <<>> THEN None ELSE Some(MinQuality(q.lits))
SeqQualityMin == I32_MIN

(***************************************************************************)
(* RegexpAtom and RegexpAtoms.                                             *)
(***************************************************************************)
RegexpAtom(a, l) == [atom |-> a, code_loc |-> l]

RegexpAtomsEmpty == [atoms |-> <<>>, min_quality |-> I32_MIN, exact_atoms |-> 0]

\* make_inexact that resets the count and leaves the flag of each atom.
RegexpAtomsResetCount(f) == [f EXCEPT !.exact_atoms = 0]

RegexpAtomsMakeInexact(f) ==
    [f EXCEPT !.exact_atoms = 0,
              !.atoms = [i \in 1..Len(f.atoms) |->
                            [f.atoms[i] EXCEPT !.atom.exact = FALSE]]]

\* Number of exact atoms in a list of atoms.
CountExact(as) == Cardinality({i \in 1..Len(as) : as[i].exact})

\* History of a frame of best_atoms_stack: how its present content got
\* there ("empty", "roll-up" at the given depth, or "merge" of the frames of
\* an alternation).
Origin(by, d) == [by |-> by, depth |-> d]

(***************************************************************************)
(* The roll-up that ends visit_post: the atoms of the node replace the top *)
(* frame when they are better.                                             *)
(***************************************************************************)
\* The roll-up that leaves the atoms exact below the root as well.
roll_up_keep_exact(c, h, atoms, code_loc) ==
    IF c.err # "" THEN c
    ELSE IF atoms = None \/ Unwrap(atoms) = <<>> THEN c
    ELSE IF c.best_atoms_stack = <<>> THEN Fail(c, "panic")
    ELSE LET as == Unwrap(atoms)
             can_be_exact == c.depth = 0 /\ ~HasLook(h)
             best == Last(c.best_atoms_stack)
             new == [min_quality |-> MinQuality(as),
                     exact_atoms |-> CountExact(as),
                     atoms |-> [i \in 1..Len(as) |-> RegexpAtom(as[i], code_loc)]]
             top == Len(c.best_atoms_stack)
         IN
         IF \/ new.min_quality > best.min_quality
            \/ /\ new.min_quality = best.min_quality
               /\ can_be_exact
               /\ new.exact_atoms > best.exact_atoms
         THEN [c EXCEPT !.best_atoms_stack[top] = new,
                        !.origins[top] = Origin("roll-up", c.depth)]
         ELSE c

\* The roll-up that also takes atoms of the same quality as the frame's.
roll_up_not_worse(c, h, atoms, code_loc) ==
    IF c.err # "" THEN c
    ELSE IF atoms = None \/ Unwrap(atoms) = <<>> THEN c
    ELSE IF c.best_atoms_stack = <<>> THEN Fail(c, "panic")
    ELSE LET as == Unwrap(atoms)
             can_be_exact == c.depth = 0 /\ ~HasLook(h)
             new == [min_quality |-> MinQuality(as),
                     exact_atoms |-> CountExact(as),
                     atoms |-> [i \in 1..Len(as) |-> RegexpAtom(as[i], code_loc)]]
             top == Len(c.best_atoms_stack)
         IN
         IF new.min_quality >= Last(c.best_atoms_stack).min_quality
         THEN [c EXCEPT
                 !.best_atoms_stack[top] =
                     IF ~can_be_exact THEN RegexpAtomsMakeInexact(new) ELSE new,
                 !.origins[top] = Origin("roll-up", c.depth)]
         ELSE c

\* The roll-up without the tie-break on the number of exact atoms.
roll_up_strictly_better(c, h, atoms, code_loc) ==
    IF c.err # "" THEN c
    ELSE IF atoms = None \/ Unwrap(atoms) = <<>> THEN c
    ELSE IF c.best_atoms_stack = <<>> THEN Fail(c, "panic")
    ELSE LET as == Unwrap(atoms)
             can_be_exact == c.depth = 0 /\ ~HasLook(h)
             best == Last(c.best_atoms_stack)
             new == [min_quality |-> MinQuality(as),
                     exact_atoms |-> CountExact(as),
                     atoms |-> [i \in 1..Len(as) |-> RegexpAtom(as[i], code_loc)]]
             top == Len(c.best_atoms_stack)
         IN
         IF new.min_quality > best.min_quality
         THEN [c EXCEPT
                 !.best_atoms_stack[top] =
                     IF ~can_be_exact THEN RegexpAtomsMakeInexact(new) ELSE new,
                 !.origins[top] = Origin("roll-up", c.depth)]
         ELSE c

roll_up(c, h, atoms, code_loc) ==
    IF c.err # "" THEN c
    ELSE IF atoms = None \/ Unwrap(atoms) = <<>> THEN c
    ELSE IF c.best_atoms_stack = <<>> THEN Fail(c, "panic")
    ELSE LET as == Unwrap(atoms)
             can_be_exact == c.depth = 0 /\ ~HasLook(h)
             best == Last(c.best_atoms_stack)
             min_quality == MinQuality(as)
             exact_atoms == CountExact(as)
             new == [min_quality |-> min_quality,
                     exact_atoms |-> exact_atoms,
                     atoms |-> [i \in 1..Len(as) |-> RegexpAtom(as[i], code_loc)]]
             top == Len(c.best_atoms_stack)
         IN
         IF \/ min_quality > best.min_quality
            \/ /\ min_quality = best.min_quality
               /\ can_be_exact
               /\ exact_atoms > best.exact_atoms
         THEN [c EXCEPT
                 !.best_atoms_stack[top] =
                     IF ~can_be_exact THEN RegexpAtomsMakeInexact(new) ELSE new,
                 !.origins[top] = Origin("roll-up", c.depth)]
         ELSE c

\* The adjustment applied to the atoms of every backward stream.
adjust_atoms_any_chunk(c, start, adjustment) ==
    IF c.err # "" THEN c
    ELSE IF c.best_atoms_stack = <<>> THEN Fail(c, "panic")
    ELSE [c EXCEPT !.best_atoms_stack[Len(c.best_atoms_stack)].atoms =
            [i \in 1..Len(@) |->
                IF @[i].code_loc.bck >= start.bck
                THEN [@[i] EXCEPT !.code_loc.bck = @ + adjustment]
                ELSE @[i]]]

\* for atom in best_atoms.iter_mut(): the atoms of the top frame that were
\* extracted from the code that starts at start move by adjustment.
adjust_atoms(c, start, adjustment) ==
    IF c.err # "" THEN c
    ELSE IF c.best_atoms_stack = <<>> THEN Fail(c, "panic")
    ELSE [c EXCEPT !.best_atoms_stack[Len(c.best_atoms_stack)].atoms =
            [i \in 1..Len(@) |->
                IF /\ @[i].code_loc.bck_seq_id = start.bck_seq_id
                   /\ @[i].code_loc.bck >= start.bck
                THEN [@[i] EXCEPT !.code_loc.bck = @ + adjustment]
                ELSE @[i]]]

\* code_loc.bck_seq_id = backward_code().seq_id();
\* code_loc.bck = backward_code().location();
WithCurrentBck(c, l) == Loc(l.fwd, backward_code_of(c).seq_id, backward_code_of(c).len)

ExtractAtoms(h) == seq_to_atoms(simplify_seq(Extract(h)))

(***************************************************************************)
(* Concat.                                                                 *)
(***************************************************************************)
\* visit_pre_concat giving the new chunk the id of the current backward
\* code.
visit_pre_concat_same_id(c) ==
    LET c1 == push_bookmark(c, location(c)) IN
    [c1 EXCEPT !.backward_code_chunks =
        Append(@, NewInstrSeq(backward_code_of(c).seq_id))]

\* visit_pre_concat, and visit_concat_in which does the same.
visit_pre_concat(c) ==
    LET c1 == push_bookmark(c, location(c)) IN
    [c1 EXCEPT !.backward_code_chunks =
        Append(@, NewInstrSeq(backward_code_of(c).seq_id + 1))]

\* The splice that takes the location of a child before its chunk is
\* appended.
RECURSIVE SpliceChunksLocationFirst(_, _, _, _, _)
SpliceChunksLocationFirst(bc, chunks, locations, chunk_locations, i) ==
    IF i = 0 THEN <<bc, locations, chunk_locations>>
    ELSE LET bc1 == SeqAppend(bc, chunks[i])
             cl1 == (chunks[i].seq_id :> bc.len) @@ chunk_locations
             locs1 == [locations EXCEPT ![i] = Loc(@.fwd, bc.seq_id, bc.len)]
         IN SpliceChunksLocationFirst(bc1, chunks, locs1, cl1, i - 1)

\* The splice of visit_post_concat: chunks[i] for i = n down to 1 is
\* appended to bc.  The value is <<bc, locations, chunk_locations>>, where
\* chunk_locations maps the seq_id of a chunk to the offset where it starts
\* in bc (a later insert for the same seq_id replaces the earlier one).
\* The splice without the rev(): the first chunk is appended first.
RECURSIVE SpliceChunksInOrder(_, _, _, _, _)
SpliceChunksInOrder(bc, chunks, locations, chunk_locations, i) ==
    IF i = 0 THEN <<bc, locations, chunk_locations>>
    ELSE LET j == Len(chunks) - i + 1
             bc1 == SeqAppend(bc, chunks[j])
             cl1 == (chunks[j].seq_id :> bc.len) @@ chunk_locations
             locs1 == [locations EXCEPT ![j] = Loc(@.fwd, bc1.seq_id, bc1.len)]
         IN SpliceChunksInOrder(bc1, chunks, locs1, cl1, i - 1)

RECURSIVE SpliceChunks(_, _, _, _, _)
SpliceChunks(bc, chunks, locations, chunk_locations, i) ==
    IF i = 0 THEN <<bc, locations, chunk_locations>>
    ELSE LET bc1 == SeqAppend(bc, chunks[i])
             cl1 == (chunks[i].seq_id :> bc.len) @@ chunk_locations
             locs1 == [locations EXCEPT ![i] = Loc(@.fwd, bc1.seq_id, bc1.len)]
         IN SpliceChunks(bc1, chunks, locs1, cl1, i - 1)

\* The relocation that moves the offset of an atom and leaves its
\* bck_seq_id.
relocate_atoms_offset_only(c, chunk_locations, seq_id) ==
    LET top == Len(c.best_atoms_stack) IN
    [c EXCEPT !.best_atoms_stack[top].atoms =
        [i \in 1..Len(@) |->
            IF @[i].code_loc.bck_seq_id \in DOMAIN chunk_locations
            THEN [@[i] EXCEPT
                    !.code_loc.bck =
                        @ + chunk_locations[c.best_atoms_stack[top]
                                                .atoms[i].code_loc.bck_seq_id]]
            ELSE @[i]]]

\* The end of visit_post_concat: an atom of the top frame that was found in
\* one of the chunks gets the id of the stream the chunks went to and the
\* offset it has there.
\* relocate_atoms that sets the id and leaves the offset.
relocate_atoms_id_only(c, chunk_locations, seq_id) ==
    LET top == Len(c.best_atoms_stack) IN
    [c EXCEPT !.best_atoms_stack[top].atoms =
        [i \in 1..Len(@) |->
            IF @[i].code_loc.bck_seq_id \in DOMAIN chunk_locations
            THEN [@[i] EXCEPT !.code_loc.bck_seq_id = seq_id]
            ELSE @[i]]]

relocate_atoms(c, chunk_locations, seq_id) ==
    LET top == Len(c.best_atoms_stack) IN
    [c EXCEPT !.best_atoms_stack[top].atoms =
        [i \in 1..Len(@) |->
            IF @[i].code_loc.bck_seq_id \in DOMAIN chunk_locations
            THEN [@[i] EXCEPT
                    !.code_loc.bck_seq_id = seq_id,
                    !.code_loc.bck =
                        @ + chunk_locations[c.best_atoms_stack[top]
                                                .atoms[i].code_loc.bck_seq_id]]
            ELSE @[i]]]

\* visit_post_concat: the value is <<c, locations>>.
visit_post_concat(c, n) ==
    IF Len(c.backward_code_chunks) < n \/ Len(c.bookmarks) < n
       \/ c.best_atoms_stack = <<>>
    THEN <<Fail(c, "panic"), <<>>>>
    ELSE LET nchunks == Len(c.backward_code_chunks)
             last_n_chunks == SubSeq(c.backward_code_chunks, nchunks - n + 1, nchunks)
             c1 == [c EXCEPT !.backward_code_chunks = SubSeq(@, 1, nchunks - n)]
             nb == Len(c.bookmarks)
             locations == SubSeq(c.bookmarks, nb - n + 1, nb)
             c2 == [c1 EXCEPT !.bookmarks = SubSeq(@, 1, nb - n)]
             r == SpliceChunks(backward_code_of(c2), last_n_chunks, locations, <<>>, n)
             c3 == SetBackwardCode(c2, r[1])
         IN <<relocate_atoms(c3, r[3], r[1].seq_id), r[2]>>

\* The loop of the Concat arm of visit_post over the suffixes seqs[i..] (i
\* counts from 1 here); the value is <<best_atoms, best_quality, code_loc>>.
RECURSIVE BestOfSuffixes(_, _, _, _)
BestOfSuffixes(seqs, locations, i, acc) ==
    IF i > Len(seqs) THEN acc
    ELSE LET cs == concat_seq(SubSeq(seqs, i, Len(seqs)))
             quality == IF cs = None THEN None ELSE seq_quality(Unwrap(cs))
         IN
         IF quality # None /\ Unwrap(quality) > acc[2]
         THEN BestOfSuffixes(seqs, locations, i + 1,
                  <<seq_to_atoms(IF i > 1 THEN SeqMakeInexact(Unwrap(cs))
                                 ELSE Unwrap(cs)),
                    Unwrap(quality), locations[i]>>)
         ELSE BestOfSuffixes(seqs, locations, i + 1, acc)

(***************************************************************************)
(* Alternation.                                                            *)
(***************************************************************************)
visit_pre_alternation(c, n) ==
    LET l0 == location(c)
        c1 == emit(c, InstrSplitN(n))
        c2 == push_bookmark(c1, l0)
        c3 == push_bookmark(c2, location(c2))
    IN [c3 EXCEPT !.best_atoms_stack = Append(@, RegexpAtomsEmpty),
                  !.origins = Append(@, Origin("empty", c.depth))]

visit_alternation_in(c) ==
    LET l == location(c)
        c1 == emit(c, InstrWithOffset("JUMP"))
        c2 == push_bookmark(c1, l)
        c3 == push_bookmark(c2, location(c2))
    IN [c3 EXCEPT !.best_atoms_stack = Append(@, RegexpAtomsEmpty),
                  !.origins = Append(@, Origin("empty", c.depth))]

\* for _ in 0..n - 1: pops the start of an alternative and the jump before
\* it, and patches the jump; expr_locs gets the starts, the last one first.
RECURSIVE PatchJumps(_, _, _, _)
PatchJumps(c, l_end, expr_locs, k) ==
    IF k = 0 \/ c.err # "" THEN <<c, expr_locs>>
    ELSE LET e == Bookmark(c, 1)
             c1 == pop_bookmark(c)
             ln_j == Bookmark(c1, 1)
             c2 == pop_bookmark(c1)
         IN PatchJumps(patch_instr(c2, ln_j, l_end), l_end, Append(expr_locs, e), k - 1)

\* The join that keeps the quality of the first alternative.
RECURSIVE JoinFramesFirstQuality(_, _)
JoinFramesFirstQuality(all, fs) ==
    IF fs = <<>> THEN all
    ELSE JoinFramesFirstQuality([all EXCEPT !.atoms = @ \o Head(fs).atoms], Tail(fs))

\* Join of the frames of the alternatives (the reduce over last_n).
RECURSIVE JoinFrames(_, _)
JoinFrames(all, fs) ==
    IF fs = <<>> THEN all
    ELSE JoinFrames([all EXCEPT !.atoms = @ \o Head(fs).atoms,
                                !.min_quality = Min2(@, Head(fs).min_quality)],
                    Tail(fs))

\* visit_post_alternation adopting the merged frame whatever its length.
visit_post_alternation_any_length(c, n) ==
    LET l_end == location(c)
        r == PatchJumps(c, l_end, <<>>, n - 1)
        expr_locs == Append(r[2], Bookmark(r[1], 1))
        split_loc == Bookmark(r[1], 2)
        c4 == patch_split_n(pop_bookmark(pop_bookmark(r[1])), split_loc,
                            Reverse(expr_locs))
        nf == Len(c4.best_atoms_stack)
    IN
    IF c4.err # "" THEN <<c4, split_loc>>
    ELSE IF nf < n + 1 THEN <<Fail(c4, "panic"), split_loc>>
    ELSE LET last_n == SubSeq(c4.best_atoms_stack, nf - n + 1, nf)
             alternative_atoms == JoinFrames(Head(last_n), Tail(last_n))
             c5 == [c4 EXCEPT !.best_atoms_stack = SubSeq(@, 1, nf - n),
                              !.origins = SubSeq(@, 1, nf - n)]
         IN
         IF c5.best_atoms_stack[nf - n].min_quality < alternative_atoms.min_quality
         THEN <<[c5 EXCEPT !.best_atoms_stack[nf - n] = alternative_atoms,
                           !.origins[nf - n] = Origin("merge", c.depth)],
                split_loc>>
         ELSE <<c5, split_loc>>

\* visit_post_alternation: the value is <<c, split_loc>>.
visit_post_alternation(c, n) ==
    LET l_end == location(c)
        r == PatchJumps(c, l_end, <<>>, n - 1)
        c1 == r[1]
        first == Bookmark(c1, 1)
        c2 == pop_bookmark(c1)
        expr_locs == Append(r[2], first)
        split_loc == Bookmark(c2, 1)
        c3 == pop_bookmark(c2)
        c4 == patch_split_n(c3, split_loc, Reverse(expr_locs))
        nf == Len(c4.best_atoms_stack)
    IN
    IF c4.err # "" THEN <<c4, split_loc>>
    ELSE IF nf < n + 1 THEN <<Fail(c4, "panic"), split_loc>>
    ELSE LET last_n == SubSeq(c4.best_atoms_stack, nf - n + 1, nf)
             alternative_atoms == JoinFrames(Head(last_n), Tail(last_n))
             rest == SubSeq(c4.best_atoms_stack, 1, nf - n)
             best_atoms == Last(rest)
             c5 == [c4 EXCEPT !.best_atoms_stack = rest,
                              !.origins = SubSeq(@, 1, nf - n)]
         IN
         IF /\ Len(alternative_atoms.atoms) <= MAX_ATOMS_PER_REGEXP
            /\ best_atoms.min_quality < alternative_atoms.min_quality
         THEN <<[c5 EXCEPT !.best_atoms_stack[nf - n] = alternative_atoms,
                           !.origins[nf - n] = Origin("merge", c.depth)],
                split_loc>>
         ELSE <<c5, split_loc>>

(***************************************************************************)
(* Repetition.                                                             *)
(***************************************************************************)
\* The split that keeps the VM in the loop first (SPLIT_A when greedy).
SplitStay(greedy) == IF greedy THEN "SPLIT_A" ELSE "SPLIT_B"
\* The split emitted after the body of e+ and e{min,}.
SplitBack(greedy) == IF greedy THEN "SPLIT_B" ELSE "SPLIT_A"

visit_pre_repetition(c, rep) ==
    IF rep.min = 0 /\ rep.max = None
    THEN LET l1 == location(c)
             c1 == emit(c, InstrWithOffset(SplitStay(rep.greedy)))
             c2 == push_bookmark(c1, l1)
         IN [c2 EXCEPT !.zero_rep_depth = @ + 1]
    ELSE IF rep.max = None
    THEN push_bookmark(c, location(c))
    ELSE IF rep.min = 0
    THEN LET split == location(c)
             c1 == emit(c, InstrWithOffset(SplitStay(rep.greedy)))
             c2 == push_bookmark(c1, split)
             c3 == [c2 EXCEPT !.zero_rep_depth = @ + 1]
         IN push_bookmark(c3, location(c3))
    ELSE push_bookmark(c, location(c))

\* for _ in 0..k { self.emit_clone(start, end); }
RECURSIVE CloneTimes(_, _, _, _)
CloneTimes(c, start, end, k) ==
    IF k <= 0 \/ c.err # "" THEN c
    ELSE CloneTimes(emit_clone(c, start, end), start, end, k - 1)

\* The loop that puts each split after the copy instead of before it.
RECURSIVE CloneAndSplitTimes(_, _, _, _, _)
CloneAndSplitTimes(c, op, start, end, k) ==
    IF k <= 0 \/ c.err # "" THEN c
    ELSE LET c1 == emit_clone(c, start, end)
             split == location(c1)
             c2 == emit(c1, InstrWithOffset(op))
         IN CloneAndSplitTimes(push_bookmark(c2, split), op, start, end, k - 1)

\* for _ in 0..k { split = emit_instr(..); bookmarks.push(split);
\*                 emit_clone(start, end); }
RECURSIVE SplitAndCloneTimes(_, _, _, _, _)
SplitAndCloneTimes(c, op, start, end, k) ==
    IF k <= 0 \/ c.err # "" THEN c
    ELSE LET split == location(c)
             c1 == emit(c, InstrWithOffset(op))
             c2 == push_bookmark(c1, split)
         IN SplitAndCloneTimes(emit_clone(c2, start, end), op, start, end, k - 1)

\* for _ in 0..k { split = bookmarks.pop().unwrap();
\*                 patch_instr(&split, end.sub(&split)?); }
RECURSIVE PatchSplits(_, _, _)
PatchSplits(c, end, k) ==
    IF k <= 0 \/ c.err # "" THEN c
    ELSE LET split == Bookmark(c, 1)
             c1 == pop_bookmark(c)
         IN PatchSplits(patch_instr(c1, split, end), end, k - 1)

\* e* that leaves zero_rep_depth as the pre-visit set it.
visit_post_repetition_star_no_decrement(c) ==
    LET l1 == Bookmark(c, 1)
        c1 == pop_bookmark(c)
        l2 == location(c1)
        c2 == emit(c1, InstrWithOffset("JUMP"))
        c3 == patch_instr(c2, l1, location(c2))
    IN <<patch_instr(c3, l2, l1), l1>>

\* e* with the closing jump left as emitted.
visit_post_repetition_star_jump_unpatched(c) ==
    LET l1 == Bookmark(c, 1)
        c1 == pop_bookmark(c)
        c2 == emit(c1, InstrWithOffset("JUMP"))
        c3 == patch_instr(c2, l1, location(c2))
    IN <<IF c3.err # "" THEN c3 ELSE [c3 EXCEPT !.zero_rep_depth = @ - 1], l1>>

\* e* and e*?
visit_post_repetition_star(c) ==
    LET l1 == Bookmark(c, 1)
        c1 == pop_bookmark(c)
        l2 == location(c1)
        c2 == emit(c1, InstrWithOffset("JUMP"))
        l3 == location(c2)
        c3 == patch_instr(c2, l1, l3)
        c4 == patch_instr(c3, l2, l1)
    IN <<IF c4.err # "" THEN c4 ELSE [c4 EXCEPT !.zero_rep_depth = @ - 1], l1>>

\* e+ with the split patched to the location that follows it.
visit_post_repetition_plus_to_end(c, rep) ==
    LET l1 == Bookmark(c, 1)
        c1 == pop_bookmark(c)
        l2 == location(c1)
        c2 == emit(c1, InstrWithOffset(SplitBack(rep.greedy)))
    IN <<patch_instr(c2, l2, location(c2)), l1>>

\* e+ and e+?
visit_post_repetition_plus(c, rep) ==
    LET l1 == Bookmark(c, 1)
        c1 == pop_bookmark(c)
        l2 == location(c1)
        c2 == emit(c1, InstrWithOffset(SplitBack(rep.greedy)))
    IN <<patch_instr(c2, l2, l1), l1>>

\* e{min,} whose split goes back to the first copy of e for every min.
visit_post_repetition_at_least_to_start(c, rep) ==
    LET start == Bookmark(c, 1)
        c1 == pop_bookmark(c)
        end == location(c1)
        c2 == CloneTimes(c1, start, end, rep.min - 2)
        l2 == location(c2)
        c3 == emit(c2, InstrWithOffset(SplitBack(rep.greedy)))
        c4 == patch_instr(c3, l2, start)
        c5 == emit_clone(c4, start, end)
        adjustment == (rep.min - 1) * (end.bck - start.bck) + 1 + 1 + OFFSET_SIZE
    IN
    IF rep.min < 2 \/ end.bck < start.bck THEN <<Fail(c1, "panic"), start>>
    ELSE <<adjust_atoms(c5, start, adjustment), start>>

\* e{min,} with the split emitted after the last copy.
visit_post_repetition_at_least_split_last(c, rep) ==
    LET start == Bookmark(c, 1)
        c1 == pop_bookmark(c)
        end == location(c1)
        c2 == CloneTimes(c1, start, end, rep.min - 3)
        l1 == IF rep.min > 2 THEN location(c2) ELSE start
        c3 == IF rep.min > 2 THEN emit_clone(c2, start, end) ELSE c2
        c4 == emit_clone(c3, start, end)
        l2 == location(c4)
        c5 == emit(c4, InstrWithOffset(SplitBack(rep.greedy)))
        c6 == patch_instr(c5, l2, l1)
        adjustment == (rep.min - 1) * (end.bck - start.bck) + 1 + 1 + OFFSET_SIZE
    IN
    IF rep.min < 2 \/ end.bck < start.bck THEN <<Fail(c1, "panic"), start>>
    ELSE <<adjust_atoms(c6, start, adjustment), start>>

\* e{min,} with min > 1
visit_post_repetition_at_least(c, rep) ==
    LET start == Bookmark(c, 1)
        c1 == pop_bookmark(c)
        end == location(c1)
        c2 == CloneTimes(c1, start, end, rep.min - 3)
        l1 == IF rep.min > 2 THEN location(c2) ELSE start
        c3 == IF rep.min > 2 THEN emit_clone(c2, start, end) ELSE c2
        l2 == location(c3)
        c4 == emit(c3, InstrWithOffset(SplitBack(rep.greedy)))
        c5 == patch_instr(c4, l2, l1)
        c6 == emit_clone(c5, start, end)
        adjustment == (rep.min - 1) * (end.bck - start.bck) + 1 + 1 + OFFSET_SIZE
    IN
    IF rep.min < 2 \/ end.bck < start.bck THEN <<Fail(c1, "panic"), start>>
    ELSE <<adjust_atoms(c6, start, adjustment), start>>

\* e{min,max}
visit_post_repetition_bounded(c, rep) ==
    LET min == rep.min
        max == Unwrap(rep.max)
        start == Bookmark(c, 1)
        c1 == pop_bookmark(c)
        end == location(c1)
        c2 == CloneTimes(c1, start, end, min - 1)
        c3 == SplitAndCloneTimes(c2, SplitStay(rep.greedy), start, end,
                                 IF min = 0 THEN max - 1 ELSE max - min)
        c4 == IF min > 1
              THEN (IF end.bck < start.bck THEN Fail(c3, "panic")
                    ELSE adjust_atoms(c3, start, (min - 1) * (end.bck - start.bck)))
              ELSE c3
        c5 == PatchSplits(c4, location(c4), max - min)
    IN
    \* max - 1 and max - min are computed in u32.
    IF (min = 0 /\ max < 1) \/ max < min THEN <<Fail(c2, "panic"), start>>
    ELSE <<IF c5.err = "" /\ min = 0 THEN [c5 EXCEPT !.zero_rep_depth = @ - 1]
           ELSE c5,
           start>>

\* visit_post_repetition: the value is <<c, location>>.
visit_post_repetition(c, rep) ==
    IF rep.min = 0 /\ rep.max = None THEN visit_post_repetition_star(c)
    ELSE IF rep.min = 1 /\ rep.max = None THEN visit_post_repetition_plus(c, rep)
    ELSE IF rep.max = None THEN visit_post_repetition_at_least(c, rep)
    ELSE visit_post_repetition_bounded(c, rep)

(***************************************************************************)
(* The callbacks of hir::Visitor.                                          *)
(***************************************************************************)
visit_pre(c, h) ==
    LET c1 == CASE h.kind \in {"Empty", "Literal", "Class", "Look"} -> c
                [] h.kind = "Capture" -> push_bookmark(c, location(c))
                [] h.kind = "Concat" -> visit_pre_concat(c)
                [] h.kind = "Alternation" -> visit_pre_alternation(c, Len(h.subs))
                [] h.kind = "Repetition" -> visit_pre_repetition(c, h)
    IN [c1 EXCEPT !.depth = @ + 1]

\* visit_concat_in that records the location and starts no new chunk.
visit_concat_in_same_chunk(c) == push_bookmark(c, location(c))

visit_concat_in(c) == visit_pre_concat(c)

\* class_to_hex_byte: a class of one byte is that byte with mask 0xFF.
visit_post_class(c, h) ==
    IF Len(h.bytes) = 256 THEN emit(c, Instr("ANY_BYTE"))
    ELSE IF Len(h.bytes) = 1 THEN emit(c, InstrMaskedByte(h.bytes[1], 255))
    ELSE emit(c, InstrClass(h.bytes))

visit_post_look(c, h) ==
    CASE h.look = "Start" -> emit(c, Instr("START"))
      [] h.look = "End" -> emit(c, Instr("END"))
      [] h.look = "WordAscii" -> emit(c, Instr("WORD_BOUNDARY"))
      [] h.look = "WordAsciiNegate" -> emit(c, Instr("WORD_BOUNDARY_NEG"))
      [] OTHER -> Fail(c, "panic")

\* The arms of the match of visit_post; c is the compiler after depth -= 1.
visit_post_empty(c, h) ==
    IF c.zero_rep_depth > 0 THEN c
    ELSE roll_up(c, h, Some(<<Atom(<<>>, TRUE, 0)>>), location(c))

\* The Literal arm that leaves code_loc at the two ends of the literal.
visit_post_literal_unadjusted(c, h) ==
    LET c1 == emit_literal(c, h.bytes)
        code_loc == WithCurrentBck(c1, location(c))
        best_atom == best_atom_from_slice(h.bytes, DESIRED_ATOM_SIZE)
    IN
    IF c1.zero_rep_depth > 0 THEN c1
    ELSE roll_up(c1, h, Some(<<[best_atom EXCEPT !.backtrack = 0]>>), code_loc)

\* The Literal arm without the test of zero_rep_depth.
visit_post_literal_unguarded(c, h) ==
    LET c1 == emit_literal(c, h.bytes)
        code_loc == WithCurrentBck(c1, location(c))
        best_atom == best_atom_from_slice(h.bytes, DESIRED_ATOM_SIZE)
        adjustment == literal_code_length(SubSeq(h.bytes, 1, best_atom.backtrack))
    IN roll_up(c1, h, Some(<<[best_atom EXCEPT !.backtrack = 0]>>),
               Loc(code_loc.fwd + adjustment, code_loc.bck_seq_id,
                   code_loc.bck - adjustment))

visit_post_literal(c, h) ==
    LET c1 == emit_literal(c, h.bytes)
        code_loc == WithCurrentBck(c1, location(c))
        best_atom == best_atom_from_slice(h.bytes, DESIRED_ATOM_SIZE)
        adjustment == literal_code_length(SubSeq(h.bytes, 1, best_atom.backtrack))
    IN
    IF c1.zero_rep_depth > 0 THEN c1
    ELSE roll_up(c1, h, Some(<<[best_atom EXCEPT !.backtrack = 0]>>),
                 Loc(code_loc.fwd + adjustment, code_loc.bck_seq_id,
                     code_loc.bck - adjustment))

\* visit_post_capture reading the bookmark with last() instead of pop().
visit_post_capture_peek(c, h) ==
    LET code_loc == WithCurrentBck(c, Bookmark(c, 1)) IN
    IF c.zero_rep_depth > 0 THEN c
    ELSE roll_up(c, h, ExtractAtoms(h), code_loc)

visit_post_capture(c, h) ==
    LET code_loc == WithCurrentBck(c, Bookmark(c, 1))
        c1 == pop_bookmark(c)
    IN
    IF c1.err # "" \/ c1.zero_rep_depth > 0 THEN c1
    ELSE roll_up(c1, h, ExtractAtoms(h), code_loc)

visit_post_look_arm(c, h) ==
    LET c1 == visit_post_look(c, h)
        code_loc == WithCurrentBck(c1, location(c))
    IN
    IF c1.err # "" \/ c1.zero_rep_depth > 0 THEN c1
    ELSE roll_up(c1, h, ExtractAtoms(h), code_loc)

visit_post_class_arm(c, h) ==
    LET c1 == visit_post_class(c, h)
        code_loc == WithCurrentBck(c1, location(c))
    IN
    IF c1.zero_rep_depth > 0 THEN c1
    ELSE roll_up(c1, h, ExtractAtoms(h), code_loc)

visit_post_concat_arm(c, h) ==
    LET r == visit_post_concat(c, Len(h.subs))
        c1 == r[1]
        seqs == [i \in 1..Len(h.subs) |-> Extract(h.subs[i])]
        best == BestOfSuffixes(seqs, r[2], 1, <<None, SeqQualityMin, Loc(0, 0, 0)>>)
    IN
    IF c1.err # "" \/ c1.zero_rep_depth > 0 THEN c1
    ELSE roll_up(c1, h, best[1], best[3])

\* The Alternation arm testing zero_rep_depth before it calls
\* visit_post_alternation.
visit_post_alternation_arm_early(c, h) ==
    IF c.zero_rep_depth > 0 THEN c
    ELSE LET r == visit_post_alternation(c, Len(h.subs)) IN
         roll_up(r[1], h, ExtractAtoms(h), WithCurrentBck(r[1], r[2]))

visit_post_alternation_arm(c, h) ==
    LET r == visit_post_alternation(c, Len(h.subs))
        c1 == r[1]
        code_loc == WithCurrentBck(c1, r[2])
    IN
    IF c1.err # "" \/ c1.zero_rep_depth > 0 THEN c1
    ELSE roll_up(c1, h, ExtractAtoms(h), code_loc)

visit_post_repetition_arm(c, h) ==
    LET r == visit_post_repetition(c, h)
        c1 == r[1]
        code_loc == WithCurrentBck(c1, r[2])
    IN
    IF c1.err # "" \/ c1.zero_rep_depth > 0 THEN c1
    ELSE roll_up(c1, h, ExtractAtoms(h), code_loc)

visit_post(c0, h) ==
    LET c == [c0 EXCEPT !.depth = @ - 1] IN
    CASE h.kind = "Empty" -> visit_post_empty(c, h)
      [] h.kind = "Literal" -> visit_post_literal(c, h)
      [] h.kind = "Capture" -> visit_post_capture(c, h)
      [] h.kind = "Look" -> visit_post_look_arm(c, h)
      [] h.kind = "Class" -> visit_post_class_arm(c, h)
      [] h.kind = "Concat" -> visit_post_concat_arm(c, h)
      [] h.kind = "Alternation" -> visit_post_alternation_arm(c, h)
      [] h.kind = "Repetition" -> visit_post_repetition_arm(c, h)

(***************************************************************************)
(* The state: the input, the fields of the Compiler, the position of the   *)
(* visitor, and the result of compile.                                     *)
(***************************************************************************)
VARIABLES
    hir,                  \* the HIR given to compile
    forward_code,
    backward_code,
    bookmarks,
    best_atoms_stack,
    backward_code_chunks,
    depth,
    zero_rep_depth,
    origins,              \* history: Origin of each frame of best_atoms_stack
                          \* and, once compile has popped it, of the frame
                          \* whose atoms it returns
    pc,                   \* the next callback and the path of its node
    ret,                  \* "" while compiling, then "Ok", "TooLarge" or "panic"
    atoms                 \* the atoms that compile returns

vars ==
    <<hir, forward_code, backward_code, bookmarks, best_atoms_stack,
      backward_code_chunks, depth, zero_rep_depth, origins, pc, ret, atoms>>

\* The compiler as the record the operators above work on.
Self ==
    [forward_code |-> forward_code, backward_code |-> backward_code,
     bookmarks |-> bookmarks, best_atoms_stack |-> best_atoms_stack,
     backward_code_chunks |-> backward_code_chunks, depth |-> depth,
     zero_rep_depth |-> zero_rep_depth, origins |-> origins, err |-> ""]

Install(c) ==
    /\ forward_code' = c.forward_code
    /\ backward_code' = c.backward_code
    /\ bookmarks' = c.bookmarks
    /\ best_atoms_stack' = c.best_atoms_stack
    /\ backward_code_chunks' = c.backward_code_chunks
    /\ depth' = c.depth
    /\ zero_rep_depth' = c.zero_rep_depth
    /\ origins' = c.origins

At(cb, path) == [cb |-> cb, path |-> path]

\* The inputs, as a set of sets: the HIRs of weight up to MaxSize, the
\* large ones, the examples and the wide ones.
Hirs ==
    LET lv == HirsUpTo(MaxSize - 1)
    IN  {lv[k] : k \in 1..Len(lv)} \cup HirParts(lv, MaxSize)
        \cup {LargeHirs, ScenarioHirs, WideHirs}

\* Compiler::new
Init ==
    /\ \E hs \in Hirs : hir \in hs
    /\ forward_code = NewInstrSeq(0)
    /\ backward_code = NewInstrSeq(0)
    /\ backward_code_chunks = <<>>
    /\ bookmarks = <<>>
    /\ best_atoms_stack = <<RegexpAtomsEmpty>>
    /\ depth = 0
    /\ zero_rep_depth = 0
    /\ origins = <<Origin("empty", 0)>>
    /\ pc = At("pre", <<>>)
    /\ ret = ""
    /\ atoms = <<>>

(***************************************************************************)
(* regex_syntax::hir::visit: which callback follows which.                 *)
(***************************************************************************)
HasChildren(h) == h.subs # <<>>

AfterPre(path) ==
    IF HasChildren(NodeAt(hir, path)) THEN At("pre", Append(path, 1))
    ELSE At("post", path)

AfterPost(path) ==
    IF path = <<>> THEN At("finish", <<>>)
    ELSE LET parent == Front(path)
             k == Last(path)
             p == NodeAt(hir, parent)
         IN
         IF p.kind \in {"Concat", "Alternation"} /\ k < Len(p.subs)
         THEN At(IF p.kind = "Concat" THEN "concat_in" ELSE "alternation_in",
                 Append(parent, k + 1))
         ELSE At("post", parent)

\* A callback that fails ends the traversal: compile returns its error.
Continue(c, next) ==
    /\ Install(c)
    /\ ret' = c.err
    /\ pc' = IF c.err = "" THEN next ELSE At("done", pc.path)
    /\ UNCHANGED <<hir, atoms>>

VisitPre ==
    /\ ret = "" /\ pc.cb = "pre"
    /\ Continue(visit_pre(Self, NodeAt(hir, pc.path)), AfterPre(pc.path))

VisitPost ==
    /\ ret = "" /\ pc.cb = "post"
    /\ Continue(visit_post(Self, NodeAt(hir, pc.path)), AfterPost(pc.path))

VisitAlternationIn ==
    /\ ret = "" /\ pc.cb = "alternation_in"
    /\ Continue(visit_alternation_in(Self), At("pre", pc.path))

VisitConcatIn ==
    /\ ret = "" /\ pc.cb = "concat_in"
    /\ Continue(visit_concat_in(Self), At("pre", pc.path))

\* MATCH emitted to the forward code only.
emit_match_forward_only(c) ==
    [c EXCEPT !.forward_code = SeqEmitInstr(@, Instr("MATCH"))]

\* self.forward_code_mut().emit_instr(Instr::MATCH);
\* self.backward_code_mut().emit_instr(Instr::MATCH);
emit_match(c) == emit(c, Instr("MATCH"))

\* The rest of compile once visit has returned Ok.
Compile ==
    /\ ret = "" /\ pc.cb = "finish"
    /\ LET c1 == emit_match(Self) IN
       IF best_atoms_stack = <<>>
          \/ Len(Last(best_atoms_stack).atoms) > MAX_ATOMS_PER_REGEXP
       THEN /\ ret' = "panic"
            /\ UNCHANGED <<forward_code, backward_code, bookmarks,
                           best_atoms_stack, backward_code_chunks, depth,
                           zero_rep_depth, origins, atoms>>
       ELSE /\ Install([c1 EXCEPT !.best_atoms_stack = Front(@)])
            /\ atoms' = Last(best_atoms_stack).atoms
            /\ ret' = "Ok"
    /\ pc' = At("done", <<>>)
    /\ UNCHANGED hir

Next ==
    \/ VisitPre
    \/ VisitPost
    \/ VisitAlternationIn
    \/ VisitConcatIn
    \/ Compile

Spec == Init /\ [][Next]_vars

(***************************************************************************)
(* What the nodes that the traversal has entered and not yet left have     *)
(* pushed.  A proper prefix of pc.path is such a node, and so is the node  *)
(* at pc.path when its post-visit is the next callback.                    *)
(***************************************************************************)
\* Children of the node at the first i elements of pc.path that have had
\* their pre-visit or in-visit callback, i < Len(pc.path).
EnteredAt(i) ==
    IF i + 1 = Len(pc.path) /\ pc.cb \in {"concat_in", "alternation_in"}
    THEN pc.path[i + 1] - 1
    ELSE pc.path[i + 1]

\* Bookmarks, chunks and frames a node h holds once k of its children are
\* entered.
Pushed(what, h, k) ==
    CASE what = "bookmarks" ->
             (CASE h.kind = "Capture" -> 1
                [] h.kind = "Concat" -> k
                [] h.kind = "Alternation" -> 2 * k
                [] h.kind = "Repetition" ->
                       IF h.min = 0 /\ h.max # None THEN 2 ELSE 1
                [] OTHER -> 0)
      [] what = "chunks" -> IF h.kind = "Concat" THEN k ELSE 0
      [] what = "frames" -> IF h.kind = "Alternation" THEN k ELSE 0

RECURSIVE PushedAbove(_, _)
PushedAbove(what, i) ==
    IF i = 0 THEN 0
    ELSE Pushed(what, NodeAt(hir, SubSeq(pc.path, 1, i - 1)), EnteredAt(i - 1))
         + PushedAbove(what, i - 1)

Open(what) ==
    PushedAbove(what, Len(pc.path))
    + IF pc.cb = "post"
      THEN Pushed(what, NodeAt(hir, pc.path), Len(NodeAt(hir, pc.path).subs))
      ELSE 0

(***************************************************************************)
(* Claims.                                                                 *)
(***************************************************************************)
\* C1: between callbacks the bookmarks stack holds exactly what the nodes
\* still open have pushed, so every post-visit pops what its node pushed;
\* the stack is empty when the traversal finishes and when compile returns
\* Ok.
C1_BookmarksBalanced ==
    /\ ret = "" => Len(bookmarks) = Open("bookmarks")
    /\ (pc.cb = "finish" \/ ret = "Ok") => bookmarks = <<>>

\* A bounded repetition with min = 0 over an alternation compiled to Ok.
C1_Witness ==
    /\ ret = "Ok"
    /\ hir.kind = "Repetition" /\ hir.min = 0 /\ hir.max = Some(2)
    /\ hir.subs[1].kind = "Alternation"

\* C2: between callbacks backward_code_chunks holds one chunk for every
\* entered child of every concat still open; it is empty when the traversal
\* finishes, and on Ok the root backward stream (seq id 0) ends with MATCH.
C2_ChunksBalanced ==
    /\ ret = "" => Len(backward_code_chunks) = Open("chunks")
    /\ (pc.cb = "finish" \/ ret = "Ok") => backward_code_chunks = <<>>
    /\ ret = "Ok" =>
          /\ backward_code.seq_id = 0
          /\ backward_code.len - 2 \in DOMAIN backward_code.at
          /\ backward_code.at[backward_code.len - 2].op = "MATCH"

\* A concat inside a concat compiled to Ok.
C2_Witness ==
    /\ ret = "Ok"
    /\ hir.kind = "Concat"
    /\ hir.subs[1].kind = "Concat"

\* C3: between callbacks best_atoms_stack holds the root frame and one frame
\* for every entered alternative of every alternation still open, inside a
\* repetition with min = 0 or not; one frame is left when the traversal
\* finishes and compile pops it.
C3_FramesBalanced ==
    /\ ret = "" => Len(best_atoms_stack) = 1 + Open("frames")
    /\ pc.cb = "finish" => Len(best_atoms_stack) = 1
    /\ ret = "Ok" => best_atoms_stack = <<>>

\* An alternation inside e* compiled to Ok.
C3_Witness ==
    /\ ret = "Ok"
    /\ hir.kind = "Repetition" /\ hir.min = 0 /\ hir.max = None
    /\ hir.subs[1].kind = "Alternation"

\* The instructions emitted with a target that is not known yet.
UnknownTarget(i) == i.op \in {"JUMP", "SPLIT_A", "SPLIT_B", "SPLIT_N"}
Streams ==
    {forward_code, backward_code}
    \cup {backward_code_chunks[i] : i \in 1..Len(backward_code_chunks)}

\* C4: no jump or split is ever patched twice, and when compile returns Ok
\* every jump and split of the forward and of the backward code has been
\* patched exactly once.
C4_PatchedOnce ==
    /\ \A s \in Streams : \A o \in DOMAIN s.at :
           UnknownTarget(s.at[o]) => s.at[o].patches <= 1
    /\ ret = "Ok" =>
           \A s \in {forward_code, backward_code} : \A o \in DOMAIN s.at :
               UnknownTarget(s.at[o]) => s.at[o].patches = 1

\* Code returned with a SPLIT_N, a JUMP and a split of a repetition in it.
C4_Witness ==
    /\ ret = "Ok"
    /\ \E o \in DOMAIN forward_code.at : forward_code.at[o].op = "SPLIT_N"
    /\ \E o \in DOMAIN forward_code.at : forward_code.at[o].op = "JUMP"
    /\ \E o \in DOMAIN backward_code.at :
           backward_code.at[o].op \in {"SPLIT_A", "SPLIT_B"}

\* C5: an exact atom, in a frame or returned, is in a frame whose content is
\* a roll-up made at depth 0, which only the post-visit of the root makes,
\* and the root has no look-around; atoms rolled up elsewhere or adopted
\* from the alternatives of an alternation are inexact.
HasExact(as) == \E i \in 1..Len(as) : as[i].atom.exact
C5_ExactOnlyFromRoot ==
    /\ ret = "" =>
          depth = Len(pc.path) + (IF pc.cb = "post" THEN 1 ELSE 0)
    /\ \A j \in 1..Len(best_atoms_stack) :
          HasExact(best_atoms_stack[j].atoms) =>
              /\ origins[j] = Origin("roll-up", 0)
              /\ ~HasLook(hir)
              /\ pc.cb \in {"finish", "done"}
    /\ HasExact(atoms) =>
          /\ origins[1] = Origin("roll-up", 0)
          /\ ~HasLook(hir)

\* compile returns an exact atom for a root with children.
C5_Witness ==
    /\ ret = "Ok"
    /\ HasExact(atoms)
    /\ hir.subs # <<>>

(***************************************************************************)
(* The post-visit of a concat, seen from the state it starts in.           *)
(***************************************************************************)
IsConcatPost ==
    ret = "" /\ pc.cb = "post" /\ NodeAt(hir, pc.path).kind = "Concat"
\* The chunks of the children, the first child first.
ChildChunks ==
    LET n == Len(NodeAt(hir, pc.path).subs)
        m == Len(backward_code_chunks)
    IN SubSeq(backward_code_chunks, m - n + 1, m)
\* The locations pushed for the children, the first child first.
ChildLocations ==
    LET n == Len(NodeAt(hir, pc.path).subs)
        m == Len(bookmarks)
    IN SubSeq(bookmarks, m - n + 1, m)
\* The backward stream that is current once the chunks are removed.
Receiving ==
    LET n == Len(NodeAt(hir, pc.path).subs)
        m == Len(backward_code_chunks)
    IN IF m = n THEN backward_code ELSE backward_code_chunks[m - n]
ReceivingAfter ==
    IF backward_code_chunks' = <<>> THEN backward_code'
    ELSE backward_code_chunks'[Len(backward_code_chunks')]
\* Where chunk i starts once chunks n, n-1, .., 1 follow the receiving
\* stream.
RECURSIVE LenFrom(_, _)
LenFrom(chunks, i) ==
    IF i > Len(chunks) THEN 0 ELSE chunks[i].len + LenFrom(chunks, i + 1)
StartOf(i) == Receiving.len + LenFrom(ChildChunks, i + 1)
ChunkAt(o) ==
    CHOOSE i \in 1..Len(ChildChunks) :
        StartOf(i) <= o /\ o < StartOf(i) + ChildChunks[i].len
ExpectedBackward ==
    [seq_id |-> Receiving.seq_id,
     len |-> Receiving.len + LenFrom(ChildChunks, 1),
     at |-> [o \in DOMAIN Receiving.at
                   \cup UNION {{StartOf(i) + x : x \in DOMAIN ChildChunks[i].at} :
                               i \in 1..Len(ChildChunks)} |->
                IF o < Receiving.len THEN Receiving.at[o]
                ELSE ChildChunks[ChunkAt(o)].at[o - StartOf(ChunkAt(o))]]]

\* C6: the post-visit of a concat leaves the forward code as the children
\* wrote it, child i in the bytes from its location to the location of
\* child i + 1, as long as its chunk; and the backward stream that receives
\* the chunks is what it was, followed by chunk n, .., chunk 1, every
\* instruction of a chunk as it was in the chunk.
C6_Step ==
    (IsConcatPost /\ ret' = "") =>
        LET n == Len(ChildChunks)
            End(i) == IF i = n THEN forward_code.len ELSE ChildLocations[i + 1].fwd
        IN
        /\ forward_code' = forward_code
        /\ \A i \in 1..n : End(i) - ChildLocations[i].fwd = ChildChunks[i].len
        /\ ReceivingAfter = ExpectedBackward
C6_ConcatSplice == [][C6_Step]_vars

\* A concat of a literal, a node and a class compiled to Ok: the backward
\* code starts with the class, the forward code with the literal.
C6_Witness ==
    /\ ret = "Ok"
    /\ hir.kind = "Concat" /\ Len(hir.subs) = 3
    /\ hir.subs[1].kind = "Literal" /\ hir.subs[3].kind = "Class"
    /\ forward_code.at[0].op = "BYTE"
    /\ backward_code.at[0].op = "CLASS"

\* C7: in the post-visit of a concat an atom of the top frame found in the
\* chunk of child i gets the id of the receiving stream and the offset
\* StartOf(i) + bck, where the receiving stream has the instruction the
\* chunk had at bck; every other atom, every fwd, the frames below and the
\* counters of the top frame are unchanged.  The roll-up that ends the
\* post-visit then keeps the top frame or replaces it.
C7_Step ==
    (IsConcatPost /\ ret' = "") =>
        LET n == Len(ChildChunks)
            top == Len(best_atoms_stack)
            mid == visit_post_concat([Self EXCEPT !.depth = @ - 1], n)[1]
            old == best_atoms_stack[top]
            new == mid.best_atoms_stack[top]
            ChunkOf(a) == CHOOSE i \in 1..n :
                              ChildChunks[i].seq_id = a.code_loc.bck_seq_id
            InChunk(a) == \E i \in 1..n :
                              ChildChunks[i].seq_id = a.code_loc.bck_seq_id
        IN
        /\ Len(new.atoms) = Len(old.atoms)
        /\ new.min_quality = old.min_quality
        /\ new.exact_atoms = old.exact_atoms
        /\ \A k \in 1..Len(old.atoms) :
              LET a == old.atoms[k]
                  b == a.code_loc.bck
              IN
              IF InChunk(a)
              THEN /\ new.atoms[k] =
                        [a EXCEPT !.code_loc =
                            Loc(a.code_loc.fwd, Receiving.seq_id,
                                StartOf(ChunkOf(a)) + b)]
                   /\ b <= ChildChunks[ChunkOf(a)].len
                   /\ Aligned(ChildChunks[ChunkOf(a)], b)
                   /\ Aligned(ReceivingAfter, StartOf(ChunkOf(a)) + b)
                   /\ b < ChildChunks[ChunkOf(a)].len =>
                        ReceivingAfter.at[StartOf(ChunkOf(a)) + b]
                            = ChildChunks[ChunkOf(a)].at[b]
              ELSE new.atoms[k] = a
        /\ Len(best_atoms_stack') = top
        /\ SubSeq(best_atoms_stack', 1, top - 1) = SubSeq(best_atoms_stack, 1, top - 1)
        /\ \/ best_atoms_stack'[top] = new
           \/ /\ origins'[top] = Origin("roll-up", depth - 1)
              /\ best_atoms_stack'[top].min_quality >= old.min_quality
C7_ConcatRelocation == [][C7_Step]_vars

\* A concat whose second child is a concat with the best atom of the whole
\* in its second child: the atom is relocated by both post-visits.
C7_Witness ==
    /\ pc = At("post", <<>>)
    /\ hir.kind = "Concat" /\ Len(hir.subs) = 2
    /\ hir.subs[2].kind = "Concat"
    /\ best_atoms_stack[1].atoms # <<>>
    /\ best_atoms_stack[1].atoms[1].code_loc.bck_seq_id = 2
    /\ best_atoms_stack[1].atoms[1].code_loc.bck > 0

(***************************************************************************)
(* The displacements that the post-visit about to run hands to             *)
(* Location::sub, computed from the state it starts in: the bookmarks, the *)
(* end of the code and the length of the body of the repetition.           *)
(***************************************************************************)
Diff(a, b) == [fwd |-> a.fwd - b.fwd, bck |-> a.bck - b.bck]
Shift(l, d) == [fwd |-> l.fwd + d.fwd, bck |-> l.bck + d.bck]
Times(k, d) == [fwd |-> k * d.fwd, bck |-> k * d.bck]
Displacements ==
    LET h == NodeAt(hir, pc.path)
        here == location(Self)
        B(k) == Bookmark(Self, k)
        split == InstrWithOffset("JUMP").size
        size == [fwd |-> split, bck |-> split]
        body == Diff(here, B(1))
    IN
    CASE h.kind = "Alternation" ->
             LET n == Len(h.subs) IN
             {Diff(here, B(2 * k)) : k \in 1..(n - 1)}
             \cup {Diff(B(2 * k - 1), B(2 * n)) : k \in 1..n}
      [] h.kind = "Repetition" /\ h.max = None /\ h.min = 0 ->
             {Diff(Shift(here, size), B(1)), Diff(B(1), here)}
      [] h.kind = "Repetition" /\ h.max = None /\ h.min = 1 ->
             {Diff(B(1), here)}
      [] h.kind = "Repetition" /\ h.max = None /\ h.min > 1 ->
             {Times(-1, body)}
      [] h.kind = "Repetition" /\ h.max # None ->
             LET min == h.min
                 max == Unwrap(h.max)
                 copies == IF min = 0 THEN 0 ELSE min - 1
                 m == IF min = 0 THEN max - 1 ELSE max - min
                 first == Shift(here, Times(copies, body))
                 Split(j) == Shift(first, Times(j - 1, Shift(size, body)))
                 end == Split(m + 1)
             IN
             IF m < 0 THEN {}
             ELSE {Diff(end, Split(j)) : j \in 1..m}
                  \cup (IF min = 0 THEN {Diff(end, B(2))} ELSE {})
      [] OTHER -> {}

FitsI16(d) == -32768 <= d /\ d <= 32767

\* C8: a callback ends compile with TooLarge exactly when it is a post-visit
\* and one of the displacements it patches does not fit 16 bits with sign,
\* forward or backward; no callback runs after that and no atoms are
\* returned.
C8_Step ==
    /\ ret # "TooLarge"
    /\ (ret = "" /\ pc.cb = "post") =>
          (ret' = "TooLarge" <=>
              \E d \in Displacements : ~FitsI16(d.fwd) \/ ~FitsI16(d.bck))
    /\ ret' = "TooLarge" =>
          /\ pc.cb = "post"
          /\ pc'.cb = "done"
          /\ atoms' = <<>>
C8_TooLarge == [][C8_Step]_vars

\* TooLarge from the post-visit of a node that is not the root, the rest of
\* the traversal not run.
C8_Witness ==
    /\ ret = "TooLarge"
    /\ hir.kind = "Concat"
    /\ pc = At("done", <<1>>)
    /\ forward_code.len > 32767
    /\ atoms = <<>>

\* A frame without the code locations of its atoms.
AtomsOnly(f) ==
    [min_quality |-> f.min_quality, exact_atoms |-> f.exact_atoms,
     atoms |-> [i \in 1..Len(f.atoms) |-> f.atoms[i].atom]]
\* The node at pc.path lies inside a repetition with min = 0.
InsideZeroRep ==
    \E i \in 0..(Len(pc.path) - 1) :
        LET a == NodeAt(hir, SubSeq(pc.path, 1, i)) IN
        a.kind = "Repetition" /\ a.min = 0

\* C9: a post-visit that finds zero_rep_depth > 0 after its own decrement,
\* which is the post-visit of every node inside a repetition with min = 0,
\* pushes no frame and leaves in every frame that remains the atoms, the
\* min_quality and the exact_atoms it had.
C9_Step ==
    (ret = "" /\ pc.cb = "post" /\ ret' = ""
        /\ (zero_rep_depth' > 0 \/ InsideZeroRep)) =>
        /\ zero_rep_depth' > 0
        /\ Len(best_atoms_stack') <= Len(best_atoms_stack)
        /\ \A j \in 1..Len(best_atoms_stack') :
              AtomsOnly(best_atoms_stack'[j]) = AtomsOnly(best_atoms_stack[j])
C9_NoAtomsInZeroRep == [][C9_Step]_vars

\* The post-visit of a literal inside e* has run, after a sibling of e* has
\* given the frame its atoms: the frame still holds them.
C9_Witness ==
    /\ ret = "" /\ pc.cb = "post" /\ pc.path # <<>>
    /\ zero_rep_depth > 0
    /\ NodeAt(hir, pc.path).kind = "Repetition"
    /\ NodeAt(hir, pc.path).subs[1].kind = "Literal"
    /\ best_atoms_stack[1].atoms # <<>>

\* The root is e* or e*? over a literal.
IsStarOfLiteral ==
    /\ hir.kind = "Repetition" /\ hir.min = 0 /\ hir.max = None
    /\ hir.subs[1].kind = "Literal"

\* C10 as claimed: for a root e* or e*? over a literal, compile returns no
\* atom.
C10_StarOfLiteralNoAtoms ==
    (ret = "Ok" /\ IsStarOfLiteral) => atoms = <<>>

\* C10 amended: for a root e* or e*? over a literal the post-visit of the
\* literal takes no atom, and the post-visit of the root, which finds
\* zero_rep_depth back at 0, takes the atoms of the repetition itself:
\* compile returns the first DESIRED_ATOM_SIZE bytes of the literal,
\* inexact, and the empty atom, exact (the empty atom first for e*?), both
\* located at the start of the forward code and the end of the backward
\* code.
C10_StarOfLiteralAtoms ==
    IsStarOfLiteral =>
        LET bs == hir.subs[1].bytes
            prefix == Atom(SubSeq(bs, 1, Min2(Len(bs), DESIRED_ATOM_SIZE)), FALSE, 0)
            empty == Atom(<<>>, TRUE, 0)
            code_loc == Loc(0, 0, backward_code.len - Instr("MATCH").size)
        IN
        /\ (ret = "" /\ pc.cb \in {"pre", "post"}) =>
              best_atoms_stack = <<RegexpAtomsEmpty>>
        /\ ret = "Ok" =>
              atoms = IF hir.greedy
                      THEN <<RegexpAtom(prefix, code_loc), RegexpAtom(empty, code_loc)>>
                      ELSE <<RegexpAtom(empty, code_loc), RegexpAtom(prefix, code_loc)>>

\* e* over a literal longer than DESIRED_ATOM_SIZE compiled to Ok with two
\* atoms.
C10_Witness ==
    /\ ret = "Ok"
    /\ IsStarOfLiteral
    /\ Len(hir.subs[1].bytes) > DESIRED_ATOM_SIZE
    /\ Len(atoms) = 2

\* e{0,0}
IsZeroZero(h) == h.kind = "Repetition" /\ h.min = 0 /\ h.max = Some(0)
\* A stream that consists of MATCH only.
OnlyMatch(s) == s.len = Instr("MATCH").size /\ DOMAIN s.at = {0} /\ s.at[0].op = "MATCH"

\* C11: the post-visit of a repetition with min = 0 and max = 0 does not
\* fail, and for a root e{0,0} compile returns Ok with a forward and a
\* backward stream that consist of MATCH only.
C11_ZeroZeroMatchOnly ==
    /\ (ret # "" /\ pc.cb = "done" /\ IsZeroZero(NodeAt(hir, pc.path))) =>
          ret \in {"Ok", "TooLarge"}
    /\ (pc.cb = "done" /\ IsZeroZero(hir)) =>
          /\ ret = "Ok"
          /\ OnlyMatch(forward_code)
          /\ OnlyMatch(backward_code)

\* The root is e{3,} or e{3,}?.
IsAtLeastThree == hir.kind = "Repetition" /\ hir.min = 3 /\ hir.max = None
\* The instructions of s that start in [a, b), as a stream of its own.
Slice(s, a, b) == Moved(s, a, b, -a)
\* Length of the code of e in the forward code returned for e{3,}: three
\* copies, a split and MATCH.
BodyLen ==
    (forward_code.len - InstrWithOffset("JUMP").size - Instr("MATCH").size) \div 3
IsSplitTo(s, at, target) ==
    /\ at \in DOMAIN s.at
    /\ s.at[at].op \in {"SPLIT_A", "SPLIT_B"}
    /\ s.at[at].arg = <<target - at>>

\* C12 as claimed: the forward code returned for the root e{3,} is three
\* consecutive copies of the code of e and then the split, which targets the
\* start of the third copy.
C12_ThreeCopiesThenSplit ==
    (ret = "Ok" /\ IsAtLeastThree) =>
        LET L == BodyLen IN
        /\ Slice(forward_code, L, 2 * L) = Slice(forward_code, 0, L)
        /\ Slice(forward_code, 2 * L, 3 * L) = Slice(forward_code, 0, L)
        /\ IsSplitTo(forward_code, 3 * L, 2 * L)

\* C12 amended: the forward code returned for the root e{3,} is two
\* consecutive copies of the code of e, the split, and a third copy after
\* the split; the split targets the start of the second copy; MATCH follows
\* the third copy.
C12_TwoCopiesSplitCopy ==
    (ret = "Ok" /\ IsAtLeastThree) =>
        LET L == BodyLen
            split == InstrWithOffset("JUMP").size
        IN
        /\ forward_code.len = 3 * L + split + Instr("MATCH").size
        /\ Slice(forward_code, L, 2 * L) = Slice(forward_code, 0, L)
        /\ Slice(forward_code, 2 * L + split, 3 * L + split) = Slice(forward_code, 0, L)
        /\ IsSplitTo(forward_code, 2 * L, L)
        /\ forward_code.at[2 * L].op = SplitBack(hir.greedy)
        /\ forward_code.at[3 * L + split].op = "MATCH"

\* e{3,} over a literal compiled to Ok.
C12_Witness ==
    /\ ret = "Ok"
    /\ IsAtLeastThree
    /\ hir.subs[1].kind = "Literal"
    /\ BodyLen > 0

\* The root is an alternation of literals.
IsLiteralAlternation ==
    /\ hir.kind = "Alternation"
    /\ \A i \in 1..Len(hir.subs) : hir.subs[i].kind = "Literal"
\* The frames of the alternatives hold inexact atoms only, and so does the
\* frame that the post-visit of the root makes of them.
AlternativesInexact ==
    (ret = "" /\ pc = At("post", <<>>)) =>
        LET n == Len(hir.subs)
            merged == visit_post_alternation([Self EXCEPT !.depth = @ - 1], n)[1]
        IN
        /\ Len(best_atoms_stack) = n + 1
        /\ \A i \in 1..n :
              /\ origins[i + 1] = Origin("roll-up", 1)
              /\ best_atoms_stack[i + 1].exact_atoms = 0
              /\ best_atoms_stack[i + 1].atoms # <<>>
              /\ ~HasExact(best_atoms_stack[i + 1].atoms)
        /\ Len(merged.best_atoms_stack) = 1
        /\ merged.origins[1] = Origin("merge", 0)
        /\ merged.best_atoms_stack[1].exact_atoms = 0
        /\ Len(merged.best_atoms_stack[1].atoms) = n
        /\ ~HasExact(merged.best_atoms_stack[1].atoms)

\* C13 as claimed: for a root that is an alternation of n literals compile
\* returns n atoms, all exact, although the atoms rolled up at the
\* alternatives were made inexact and the merged frame has exact_atoms = 0.
C13_LiteralAlternationExact ==
    IsLiteralAlternation =>
        /\ AlternativesInexact
        /\ ret = "Ok" =>
              /\ Len(atoms) = Len(hir.subs)
              /\ \A i \in 1..Len(atoms) : atoms[i].atom.exact

\* The literals are pairwise different and none is longer than
\* DESIRED_ATOM_SIZE.
ShortDistinctLiterals ==
    /\ \A i \in 1..Len(hir.subs) : Len(hir.subs[i].bytes) <= DESIRED_ATOM_SIZE
    /\ \A i, j \in 1..Len(hir.subs) :
          i # j => hir.subs[i].bytes # hir.subs[j].bytes

\* C13 amended: for a root that is an alternation of n literals, pairwise
\* different and none longer than DESIRED_ATOM_SIZE, compile returns n
\* atoms, the i-th being the i-th literal, exact and located at the
\* SPLIT_N, although the atoms rolled up at the alternatives were made
\* inexact and the merged frame has exact_atoms = 0.
C13_ShortLiteralAlternationExact ==
    IsLiteralAlternation =>
        /\ AlternativesInexact
        /\ (ret = "Ok" /\ ShortDistinctLiterals) =>
              /\ Len(atoms) = Len(hir.subs)
              /\ \A i \in 1..Len(atoms) :
                    /\ atoms[i].atom = Atom(hir.subs[i].bytes, TRUE, 0)
                    /\ atoms[i].code_loc.fwd = 0
              /\ origins = <<Origin("roll-up", 0)>>

\* The alternation of three different short literals compiled to Ok with
\* three exact atoms.
C13_Witness ==
    /\ ret = "Ok"
    /\ IsLiteralAlternation /\ ShortDistinctLiterals
    /\ Len(hir.subs) = 3
    /\ Len(atoms) = 3 /\ atoms[3].atom.exact

\* C14: no frame of best_atoms_stack ever holds more than
\* MAX_ATOMS_PER_REGEXP atoms, whether a roll-up or the merge of an
\* alternation set it; the assertion of compile does not fail (the only
\* panic with the root as its node is that of the post-visit of e{0,0}) and
\* compile returns at most MAX_ATOMS_PER_REGEXP atoms.
C14_AtMostMaxAtoms ==
    /\ \A j \in 1..Len(best_atoms_stack) :
          Len(best_atoms_stack[j].atoms) <= MAX_ATOMS_PER_REGEXP
    /\ (pc.cb = "done" /\ pc.path = <<>> /\ ret = "panic") => IsZeroZero(hir)
    /\ Len(atoms) <= MAX_ATOMS_PER_REGEXP

\* An alternation whose alternatives have more than MAX_ATOMS_PER_REGEXP
\* atoms together, and at least one each, compiled to Ok.
C14_Witness ==
    /\ ret = "Ok"
    /\ hir = HirAlternation(<<Wide, Wide>>)
    /\ atoms # <<>>

\* The offsets of s at which a MATCH starts.
Matches(s) == {o \in DOMAIN s.at : s.at[o].op = "MATCH"}

\* C15: while the traversal runs no stream holds a MATCH, so no callback
\* emits one; when compile returns Ok the forward and the backward code
\* each hold exactly one MATCH, which is their last instruction.
C15_OneMatchLast ==
    /\ ret # "Ok" => \A s \in Streams : Matches(s) = {}
    /\ ret = "Ok" =>
          \A s \in {forward_code, backward_code} :
              Matches(s) = {s.len - Instr("MATCH").size}

\* A capture of a concat compiled to Ok with code before the MATCH.
C15_Witness ==
    /\ ret = "Ok"
    /\ hir.kind = "Capture" /\ hir.subs[1].kind = "Concat"
    /\ backward_code.len > Instr("MATCH").size
    /\ Matches(backward_code) # {}

(***************************************************************************)
(* The strings that a HIR matches, a look-around taken as matching the     *)
(* empty string wherever it stands and an unbounded repetition iterated at *)
(* most min + ExtraRepeats times.                                          *)
(***************************************************************************)
ConcatLang(A, B) == {a \o b : a \in A, b \in B}
RECURSIVE Power(_, _)
Power(A, k) == IF k = 0 THEN {<<>>} ELSE ConcatLang(Power(A, k - 1), A)
MaxIterations(h) == IF h.max = None THEN h.min + ExtraRepeats ELSE Unwrap(h.max)
RECURSIVE Lang(_)
RECURSIVE LangOfConcat(_)
LangOfConcat(hs) ==
    IF hs = <<>> THEN {<<>>}
    ELSE ConcatLang(Lang(Head(hs)), LangOfConcat(Tail(hs)))
Lang(h) ==
    CASE h.kind \in {"Empty", "Look"} -> {<<>>}
      [] h.kind = "Literal" -> {h.bytes}
      [] h.kind = "Class" -> {<<h.bytes[i]>> : i \in 1..Len(h.bytes)}
      [] h.kind = "Capture" -> Lang(h.subs[1])
      [] h.kind = "Concat" -> LangOfConcat(h.subs)
      [] h.kind = "Alternation" -> UNION {Lang(h.subs[i]) : i \in 1..Len(h.subs)}
      [] h.kind = "Repetition" ->
             UNION {Power(Lang(h.subs[1]), k) : k \in h.min..MaxIterations(h)}

\* An upper bound of Cardinality(Lang(h)), cut at MaxLang + 1.
Cut(n) == Min2(n, MaxLang + 1)
RECURSIVE SumOfPowers(_, _, _)
SumOfPowers(n, k, to) ==
    IF k > to THEN 0
    ELSE Cut((IF k = 0 THEN 1 ELSE Cut(n * SumOfPowers(n, k - 1, k - 1)))
             + SumOfPowers(n, k + 1, to))
RECURSIVE LangSize(_)
RECURSIVE LangSizeOfAll(_, _)
LangSizeOfAll(hs, product) ==
    IF hs = <<>> THEN (IF product THEN 1 ELSE 0)
    ELSE IF product THEN Cut(LangSize(Head(hs)) * LangSizeOfAll(Tail(hs), product))
    ELSE Cut(LangSize(Head(hs)) + LangSizeOfAll(Tail(hs), product))
LangSize(h) ==
    CASE h.kind \in {"Empty", "Look", "Literal"} -> 1
      [] h.kind = "Class" -> Cut(Len(h.bytes))
      [] h.kind = "Capture" -> LangSize(h.subs[1])
      [] h.kind = "Concat" -> LangSizeOfAll(h.subs, TRUE)
      [] h.kind = "Alternation" -> LangSizeOfAll(h.subs, FALSE)
      [] h.kind = "Repetition" ->
             SumOfPowers(LangSize(h.subs[1]), h.min, MaxIterations(h))

\* The string a occurs in the string w.
Contains(w, a) ==
    \E i \in 0..(Len(w) - Len(a)) : SubSeq(w, i + 1, i + Len(a)) = a

\* C16: when compile returns Ok, every string that the HIR matches contains
\* at least one of the atoms returned (for the HIRs that match at most
\* MaxLang strings as listed by Lang).
C16_AtomSoundness ==
    (ret = "Ok" /\ LangSize(hir) <= MaxLang) =>
        \A w \in Lang(hir) : \E i \in 1..Len(atoms) : Contains(w, atoms[i].atom.bytes)

(***************************************************************************)
(* The roll-up of the post-visit about to run, seen from the state it      *)
(* starts in.                                                              *)
(***************************************************************************)
\* The atoms that the arm of the node hands to the roll-up (an Option).
NodeAtoms(h) ==
    CASE h.kind = "Empty" -> Some(<<Atom(<<>>, TRUE, 0)>>)
      [] h.kind = "Literal" ->
             Some(<<[best_atom_from_slice(h.bytes, DESIRED_ATOM_SIZE)
                        EXCEPT !.backtrack = 0]>>)
      [] h.kind = "Concat" ->
             BestOfSuffixes([i \in 1..Len(h.subs) |-> Extract(h.subs[i])],
                            [i \in 1..Len(h.subs) |-> Loc(0, 0, 0)], 1,
                            <<None, SeqQualityMin, Loc(0, 0, 0)>>)[1]
      [] OTHER -> ExtractAtoms(h)
\* The compiler once the arm of the node has emitted, patched, spliced and
\* merged, before the roll-up.
BeforeRollUp ==
    LET h == NodeAt(hir, pc.path)
        c == [Self EXCEPT !.depth = @ - 1]
    IN
    CASE h.kind = "Concat" -> visit_post_concat(c, Len(h.subs))[1]
      [] h.kind = "Alternation" -> visit_post_alternation(c, Len(h.subs))[1]
      [] h.kind = "Repetition" -> visit_post_repetition(c, h)[1]
      [] OTHER -> c

\* C17: a post-visit that reaches the roll-up replaces the top frame with
\* the atoms of the node, made inexact unless the node is the root and has
\* no look-around, exactly when there are atoms and either their least
\* quality is greater than the frame's min_quality, or it is equal, the
\* node is the root without look-around and more atoms are exact than the
\* frame's exact_atoms; otherwise the top frame stays as it is; the frames
\* below are not touched.
C17_Step ==
    (ret = "" /\ pc.cb = "post" /\ ret' = "" /\ zero_rep_depth' = 0) =>
        LET h == NodeAt(hir, pc.path)
            as == NodeAtoms(h)
            stack == BeforeRollUp.best_atoms_stack
            top == Len(stack)
            best == stack[top]
            can_be_exact == pc.path = <<>> /\ ~HasLook(h)
            exact == Cardinality({i \in 1..Len(Unwrap(as)) : Unwrap(as)[i].exact})
            replace ==
                /\ as # None /\ Unwrap(as) # <<>>
                /\ \/ MinQuality(Unwrap(as)) > best.min_quality
                   \/ /\ MinQuality(Unwrap(as)) = best.min_quality
                      /\ can_be_exact
                      /\ exact > best.exact_atoms
        IN
        /\ Len(best_atoms_stack') = top
        /\ SubSeq(best_atoms_stack', 1, top - 1) = SubSeq(stack, 1, top - 1)
        /\ IF replace
           THEN AtomsOnly(best_atoms_stack'[top]) =
                    [min_quality |-> MinQuality(Unwrap(as)),
                     exact_atoms |-> IF can_be_exact THEN exact ELSE 0,
                     atoms |-> [i \in 1..Len(Unwrap(as)) |->
                                   [Unwrap(as)[i] EXCEPT
                                       !.exact = @ /\ can_be_exact]]]
           ELSE best_atoms_stack'[top] = best
C17_RollUp == [][C17_Step]_vars

\* The root, a capture of a short literal, has taken the frame from the
\* literal: the same quality, one exact atom against none.
C17_Witness ==
    /\ pc.cb = "finish"
    /\ hir.kind = "Capture" /\ hir.subs[1].kind = "Literal"
    /\ Len(hir.subs[1].bytes) <= DESIRED_ATOM_SIZE
    /\ origins = <<Origin("roll-up", 0)>>
    /\ best_atoms_stack[1].exact_atoms = 1

(***************************************************************************)
(* The merge of the frames of the alternatives.                            *)
(***************************************************************************)
IsAlternationPost ==
    ret = "" /\ pc.cb = "post" /\ NodeAt(hir, pc.path).kind = "Alternation"
\* The frames of the alternatives, the first alternative first, and the
\* frame below them.
AlternativeFrames ==
    LET n == Len(NodeAt(hir, pc.path).subs)
        m == Len(best_atoms_stack)
    IN SubSeq(best_atoms_stack, m - n + 1, m)
ParentFrame ==
    best_atoms_stack[Len(best_atoms_stack) - Len(NodeAt(hir, pc.path).subs)]
RECURSIVE AllAtoms(_)
AllAtoms(fs) == IF fs = <<>> THEN <<>> ELSE Head(fs).atoms \o AllAtoms(Tail(fs))
WorstQuality(fs) ==
    CHOOSE q \in {fs[i].min_quality : i \in 1..Len(fs)} :
        \A i \in 1..Len(fs) : q <= fs[i].min_quality
MergedIsAdopted ==
    /\ Len(AllAtoms(AlternativeFrames)) <= MAX_ATOMS_PER_REGEXP
    /\ WorstQuality(AlternativeFrames) > ParentFrame.min_quality

\* C18: at an alternation post-visit the frames of the n alternatives are
\* removed and the frame below them becomes, before the roll-up, the merged
\* frame (the atoms of the alternatives in their order, min_quality the
\* least of theirs) exactly when the merged frame has at most
\* MAX_ATOMS_PER_REGEXP atoms and a min_quality greater than the parent's;
\* otherwise, and whenever an alternative left its frame empty with
\* min_quality = i32::MIN, the parent frame is kept as it is.  The step ends
\* with that frame or with one the roll-up put in its place.
C18_Step ==
    (IsAlternationPost /\ ret' = "") =>
        LET fs == AlternativeFrames
            p == Len(best_atoms_stack) - Len(fs)
            new == BeforeRollUp.best_atoms_stack[p]
        IN
        /\ Len(BeforeRollUp.best_atoms_stack) = p
        /\ IF MergedIsAdopted
           THEN /\ new.atoms = AllAtoms(fs)
                /\ new.min_quality = WorstQuality(fs)
           ELSE new = ParentFrame
        /\ (\E i \in 1..Len(fs) : fs[i].atoms = <<>> /\ fs[i].min_quality = I32_MIN)
               => new = ParentFrame
        /\ Len(best_atoms_stack') = p
        /\ SubSeq(best_atoms_stack', 1, p - 1) = SubSeq(best_atoms_stack, 1, p - 1)
        /\ \/ best_atoms_stack'[p] = new
           \/ /\ origins'[p] = Origin("roll-up", depth - 1)
              /\ zero_rep_depth' = 0
              /\ best_atoms_stack'[p].min_quality >= new.min_quality
SplitNAt == Bookmark(Self, 2 * Len(NodeAt(hir, pc.path).subs))
AlternativeStart(i) == Bookmark(Self, 2 * (Len(NodeAt(hir, pc.path).subs) - i) + 1)
JumpAfter(i) == Bookmark(Self, 2 * (Len(NodeAt(hir, pc.path).subs) - i))
BackwardAfter ==
    IF backward_code_chunks' = <<>> THEN backward_code'
    ELSE backward_code_chunks'[Len(backward_code_chunks')]

\* C19: after the post-visit of an alternation of n alternatives, in the
\* forward and in the backward stream, operand i of the SPLIT_N is the
\* start of alternative i minus the location of the SPLIT_N, and the JUMP
\* after each of the alternatives 1..n-1 has for operand the location just
\* past the last alternative minus the location of that JUMP.
C19_Step ==
    (IsAlternationPost /\ ret' = "") =>
        LET n == Len(NodeAt(hir, pc.path).subs)
            l_end == location(Self)
            f == forward_code'
            b == BackwardAfter
            jump == InstrWithOffset("JUMP").size
        IN
        /\ f.at[SplitNAt.fwd].op = "SPLIT_N"
        /\ b.at[SplitNAt.bck].op = "SPLIT_N"
        /\ f.at[SplitNAt.fwd].arg =
               [i \in 1..n |-> AlternativeStart(i).fwd - SplitNAt.fwd]
        /\ b.at[SplitNAt.bck].arg =
               [i \in 1..n |-> AlternativeStart(i).bck - SplitNAt.bck]
        /\ AlternativeStart(1).fwd = SplitNAt.fwd + f.at[SplitNAt.fwd].size
        /\ AlternativeStart(1).bck = SplitNAt.bck + b.at[SplitNAt.bck].size
        /\ \A i \in 1..(n - 1) :
              /\ f.at[JumpAfter(i).fwd].op = "JUMP"
              /\ b.at[JumpAfter(i).bck].op = "JUMP"
              /\ f.at[JumpAfter(i).fwd].arg = <<l_end.fwd - JumpAfter(i).fwd>>
              /\ b.at[JumpAfter(i).bck].arg = <<l_end.bck - JumpAfter(i).bck>>
              /\ AlternativeStart(i + 1).fwd = JumpAfter(i).fwd + jump
              /\ AlternativeStart(i + 1).bck = JumpAfter(i).bck + jump
        /\ f.len = l_end.fwd /\ b.len = l_end.bck
C19_AlternationOperands == [][C19_Step]_vars

\* foo|bar|baz is compiled: the split has three growing operands and the
\* two jumps go to the end of both streams.
C19_Witness ==
    /\ ret = "" /\ pc.cb = "finish"
    /\ hir = HirAlternation(<<HirLiteral(Foo), HirLiteral(Bar), HirLiteral(Baz)>>)
    /\ \A s \in {forward_code, backward_code} :
          /\ s.at[0].op = "SPLIT_N" /\ s.at[0].patches = 1
          /\ s.at[0].arg = <<s.at[0].size,
                             s.at[0].size + 3 + InstrWithOffset("JUMP").size,
                             s.at[0].size + 2 * (3 + InstrWithOffset("JUMP").size)>>
          /\ s.at[s.at[0].arg[2] - InstrWithOffset("JUMP").size].arg =
                 <<s.len - (s.at[0].arg[2] - InstrWithOffset("JUMP").size)>>

(***************************************************************************)
(* The code of e{min,max}.                                                 *)
(***************************************************************************)
IsBoundedPost ==
    /\ ret = "" /\ pc.cb = "post"
    /\ NodeAt(hir, pc.path).kind = "Repetition"
    /\ NodeAt(hir, pc.path).max # None
    /\ Unwrap(NodeAt(hir, pc.path).max) >= 1
\* s is the stream as the post-visit finds it, with the body in [a, e);
\* t is the stream as the post-visit leaves it.
BoundedLayout(s, t, a, e, min, max) ==
    LET L == e - a
        split == InstrWithOffset("JUMP").size
        base == IF min = 0 THEN a - split ELSE a
        CopyAt(k) == base + (k - 1) * L + (IF k > min THEN (k - min) * split ELSE 0)
    IN
    /\ e = s.len
    /\ t.len = base + max * L + (max - min) * split
    /\ \A k \in 1..max : Slice(t, CopyAt(k), CopyAt(k) + L) = Slice(s, a, e)
    /\ \A k \in (min + 1)..max : IsSplitTo(t, CopyAt(k) - split, t.len)
    /\ Moved(t, 0, base, 0) = Moved(s, 0, base, 0)

\* C20: the post-visit of e{min,max} with max >= 1 leaves, in the forward
\* and in the backward stream, exactly max copies of the code of e, with
\* one split right before each of the copies min+1..max and nothing else
\* (max - min splits when min > 0, max splits when min = 0, the first one
\* emitted by the pre-visit), and every one of these splits targets the
\* location just past the last copy, which is the end of the stream.
C20_Step ==
    (IsBoundedPost /\ ret' = "") =>
        LET h == NodeAt(hir, pc.path)
            start == Bookmark(Self, 1)
            end == location(Self)
        IN
        /\ BoundedLayout(forward_code, forward_code', start.fwd, end.fwd,
                         h.min, Unwrap(h.max))
        /\ BoundedLayout(backward_code_of(Self), BackwardAfter, start.bck, end.bck,
                         h.min, Unwrap(h.max))
C20_BoundedRepetition == [][C20_Step]_vars

\* e{2,3} over a literal has gone through its post-visit: e e split e, the
\* split targeting the end.
C20_Witness ==
    /\ ret = "" /\ pc.cb = "finish"
    /\ hir.kind = "Repetition" /\ hir.min = 2 /\ hir.max = Some(3)
    /\ hir.subs[1].kind = "Literal"
    /\ LET split == InstrWithOffset("JUMP").size
           L == (forward_code.len - split) \div 3
       IN /\ L > 0
          /\ forward_code.len = 3 * L + split
          /\ IsSplitTo(forward_code, 2 * L, 3 * L + split)
          /\ IsSplitTo(backward_code, 2 * L, 3 * L + split)

(***************************************************************************)
(* The code of e{min,} with min >= 2.                                      *)
(***************************************************************************)
IsAtLeastPost ==
    /\ ret = "" /\ pc.cb = "post"
    /\ NodeAt(hir, pc.path).kind = "Repetition"
    /\ NodeAt(hir, pc.path).max = None
    /\ NodeAt(hir, pc.path).min >= 2
\* s is the stream as the post-visit finds it, with the body in [a, e);
\* t is the stream as the post-visit leaves it.
AtLeastLayout(s, t, a, e, min) ==
    LET L == e - a
        split == InstrWithOffset("JUMP").size
        CopyAt(k) == a + (k - 1) * L + (IF k = min THEN split ELSE 0)
    IN
    /\ e = s.len
    /\ t.len = a + min * L + split
    /\ \A k \in 1..min : Slice(t, CopyAt(k), CopyAt(k) + L) = Slice(s, a, e)
    /\ IsSplitTo(t, CopyAt(min) - split, CopyAt(min - 1))
    /\ Moved(t, 0, a, 0) = Moved(s, 0, a, 0)

\* C21: the post-visit of e{min,} with min >= 2 leaves, in the forward and
\* in the backward stream, exactly min copies of the code of e and exactly
\* one split, which stands between copy min-1 and copy min and targets the
\* start of copy min-1 (the original body when min = 2).
C21_Step ==
    (IsAtLeastPost /\ ret' = "") =>
        LET h == NodeAt(hir, pc.path)
            start == Bookmark(Self, 1)
            end == location(Self)
        IN
        /\ AtLeastLayout(forward_code, forward_code', start.fwd, end.fwd, h.min)
        /\ AtLeastLayout(backward_code_of(Self), BackwardAfter, start.bck, end.bck, h.min)
        /\ h.min = 2 => IsSplitTo(forward_code', end.fwd, start.fwd)
C21_AtLeastRepetition == [][C21_Step]_vars

\* e{4,} over a literal has gone through its post-visit: e e e split e, the
\* split targeting the third copy.
C21_Witness ==
    /\ ret = "" /\ pc.cb = "finish"
    /\ hir.kind = "Repetition" /\ hir.min = 4 /\ hir.max = None
    /\ hir.subs[1].kind = "Literal"
    /\ LET split == InstrWithOffset("JUMP").size
           L == (forward_code.len - split) \div 4
       IN /\ L > 0
          /\ forward_code.len = 4 * L + split
          /\ IsSplitTo(forward_code, 3 * L, 2 * L)
          /\ IsSplitTo(backward_code, 3 * L, 2 * L)

(***************************************************************************)
(* The atoms of the body of a repetition with min >= 2.                    *)
(***************************************************************************)
IsMinTwoPost ==
    /\ ret = "" /\ pc.cb = "post"
    /\ NodeAt(hir, pc.path).kind = "Repetition"
    /\ NodeAt(hir, pc.path).min >= 2
\* Where copy number min of the body starts in the backward stream once the
\* post-visit is over: after min - 1 copies, and after the split for e{min,}.
LastMandatoryCopy ==
    LET h == NodeAt(hir, pc.path)
        start == Bookmark(Self, 1)
        end == location(Self)
    IN start.bck + (h.min - 1) * (end.bck - start.bck)
           + (IF h.max = None THEN InstrWithOffset("JUMP").size ELSE 0)

\* C22: the post-visit of a repetition with min >= 2, open-ended or
\* bounded, moves the backward location of every atom of the top frame that
\* has the bck_seq_id of the start of the body and bck >= start.bck to the
\* same offset relative to copy number min of the body in the backward
\* stream, a copy equal to the body; the forward location of these atoms,
\* and the other atoms, are unchanged.  The step ends with that frame or
\* with one the roll-up put in its place.
C22_Step ==
    (IsMinTwoPost /\ ret' = "") =>
        LET start == Bookmark(Self, 1)
            end == location(Self)
            top == Len(best_atoms_stack)
            old == best_atoms_stack[top]
            new == BeforeRollUp.best_atoms_stack[top]
            FromBody(a) == /\ a.code_loc.bck_seq_id = start.bck_seq_id
                           /\ a.code_loc.bck >= start.bck
        IN
        /\ Len(BeforeRollUp.best_atoms_stack) = top
        /\ Len(new.atoms) = Len(old.atoms)
        /\ new.min_quality = old.min_quality
        /\ new.exact_atoms = old.exact_atoms
        /\ Slice(BackwardAfter, LastMandatoryCopy,
                 LastMandatoryCopy + (end.bck - start.bck))
               = Slice(backward_code_of(Self), start.bck, end.bck)
        /\ \A k \in 1..Len(old.atoms) :
              LET a == old.atoms[k] IN
              IF FromBody(a)
              THEN /\ a.code_loc.bck <= end.bck
                   /\ new.atoms[k] =
                          [a EXCEPT !.code_loc.bck =
                              LastMandatoryCopy + (a.code_loc.bck - start.bck)]
              ELSE new.atoms[k] = a
        /\ Len(best_atoms_stack') = top
        /\ SubSeq(best_atoms_stack', 1, top - 1) = SubSeq(best_atoms_stack, 1, top - 1)
        /\ \/ best_atoms_stack'[top] = new
           \/ /\ origins'[top] = Origin("roll-up", depth - 1)
              /\ zero_rep_depth' = 0
C22_BodyAtomsMoved == [][C22_Step]_vars

\* The atom taken from a literal repeated at least twice is returned with
\* its backward location inside the last mandatory copy of the literal.
C22_Witness ==
    /\ ret = "Ok"
    /\ hir.kind = "Repetition" /\ hir.min >= 2 /\ hir.subs[1].kind = "Literal"
    /\ origins = <<Origin("roll-up", 1)>>
    /\ Len(atoms) = 1
    /\ LET split == InstrWithOffset("JUMP").size
           code == backward_code.len - Instr("MATCH").size
           copies == IF hir.max = None THEN hir.min ELSE Unwrap(hir.max)
           splits == IF hir.max = None THEN 1 ELSE Unwrap(hir.max) - hir.min
           L == (code - splits * split) \div copies
           from == (hir.min - 1) * L + (IF hir.max = None THEN split ELSE 0)
       IN /\ L > 0
          /\ atoms[1].code_loc.bck > from
          /\ atoms[1].code_loc.bck <= from + L

(***************************************************************************)
(* The operands of e* and e+, and zero_rep_depth around them.              *)
(***************************************************************************)
\* Number of repetitions with min = 0 strictly above the node at path p.
ZeroRepsAbove(p) ==
    Cardinality({i \in 0..(Len(p) - 1) :
        LET a == NodeAt(hir, SubSeq(p, 1, i)) IN
        a.kind = "Repetition" /\ a.min = 0})
IsOpenPost(min) ==
    /\ ret = "" /\ pc.cb = "post"
    /\ NodeAt(hir, pc.path).kind = "Repetition"
    /\ NodeAt(hir, pc.path).max = None
    /\ NodeAt(hir, pc.path).min = min
\* The instruction of s at offset at is op with the operand target - at.
IsInstrTo(s, op, at, target) ==
    /\ at \in DOMAIN s.at
    /\ s.at[at].op \in op
    /\ s.at[at].arg = <<target - at>>

\* C23: after the post-visit of e* the split at the head has the operand
\* (location just past the closing JUMP) - (location of the split) and the
\* JUMP has the operand (location of the split) - (location of the JUMP);
\* after the post-visit of e+ the closing split has the operand (start of
\* the body) - (location of the split); this in both streams, and in both
\* cases zero_rep_depth is what it was when the pre-visit of the node began,
\* which is the number of repetitions with min = 0 above the node.
C23_Step ==
    LET l1 == Bookmark(Self, 1)
        l2 == location(Self)
        jump == InstrWithOffset("JUMP").size
        splits == {"SPLIT_A", "SPLIT_B"}
    IN
    /\ (ret = "" /\ pc.cb = "pre") => zero_rep_depth = ZeroRepsAbove(pc.path)
    /\ (IsOpenPost(0) /\ ret' = "") =>
           /\ IsInstrTo(forward_code', splits, l1.fwd, l2.fwd + jump)
           /\ IsInstrTo(BackwardAfter, splits, l1.bck, l2.bck + jump)
           /\ IsInstrTo(forward_code', {"JUMP"}, l2.fwd, l1.fwd)
           /\ IsInstrTo(BackwardAfter, {"JUMP"}, l2.bck, l1.bck)
           /\ forward_code'.len = l2.fwd + jump
           /\ BackwardAfter.len = l2.bck + jump
           /\ zero_rep_depth' = ZeroRepsAbove(pc.path)
    /\ (IsOpenPost(1) /\ ret' = "") =>
           /\ IsInstrTo(forward_code', splits, l2.fwd, l1.fwd)
           /\ IsInstrTo(BackwardAfter, splits, l2.bck, l1.bck)
           /\ forward_code'.len = l2.fwd + jump
           /\ BackwardAfter.len = l2.bck + jump
           /\ zero_rep_depth' = zero_rep_depth
           /\ zero_rep_depth' = ZeroRepsAbove(pc.path)
C23_StarAndPlus == [][C23_Step]_vars

\* (e+)* is compiled: the inner split goes back over the body, the outer
\* split goes past the JUMP and the JUMP back to the outer split.
C23_Witness ==
    /\ ret = "" /\ pc.cb = "finish" /\ zero_rep_depth = 0
    /\ hir.kind = "Repetition" /\ hir.min = 0 /\ hir.max = None
    /\ hir.subs[1].kind = "Repetition" /\ hir.subs[1].min = 1
    /\ hir.subs[1].max = None
    /\ hir.subs[1].subs[1] = HirLiteral(ShortLiteral)
    /\ LET split == InstrWithOffset("JUMP").size IN
       \A s \in {forward_code, backward_code} :
          /\ IsInstrTo(s, {"SPLIT_A", "SPLIT_B"}, 0, s.len)
          /\ IsInstrTo(s, {"SPLIT_A", "SPLIT_B"}, split + 2, split)
          /\ IsInstrTo(s, {"JUMP"}, 2 * split + 2, 0)

(***************************************************************************)
(* The code location of the atom of a literal.                             *)
(***************************************************************************)
\* The bytes matched by the instructions of s that start in [o, e), all of
\* them literal bytes; -1 where that is not the case.
RECURSIVE Decode(_, _, _)
Decode(s, o, e) ==
    IF o >= e THEN <<>>
    ELSE IF o \notin DOMAIN s.at \/ s.at[o].op # "BYTE" THEN <<-1>>
    ELSE <<s.at[o].arg[1]>> \o Decode(s, o + s.at[o].size, e)
RECURSIVE CodeLength(_)
CodeLength(bs) ==
    IF bs = <<>> THEN 0
    ELSE (IF Head(bs) = OPCODE_PREFIX THEN 2 ELSE 1) + CodeLength(Tail(bs))
\* The post-visit of a literal outside every e{0,..} whose atom was taken.
IsLiteralTaken ==
    /\ ret = "" /\ pc.cb = "post" /\ ret' = ""
    /\ NodeAt(hir, pc.path).kind = "Literal"
    /\ zero_rep_depth = 0
    /\ best_atoms_stack' # best_atoms_stack

\* C24: when the atom of a literal is taken and starts k bytes into the
\* literal, its code_loc.fwd is the forward offset of the first instruction
\* of the literal plus the code length of the first k bytes, its
\* code_loc.bck is the end of the backward code of the literal minus that
\* length, so that the forward code from fwd matches the literal from byte
\* k on and the backward code from bck to the end of the literal's code
\* matches the first k bytes in reverse; the atom's backtrack is 0.
C24_Step ==
    IsLiteralTaken =>
        LET h == NodeAt(hir, pc.path)
            start == location(Self)
            f == forward_code'
            b == BackwardAfter
            frame == best_atoms_stack'[Len(best_atoms_stack')]
            a == frame.atoms[1]
            k == best_atom_from_slice(h.bytes, DESIRED_ATOM_SIZE).backtrack
            prefix == SubSeq(h.bytes, 1, k)
            rest == SubSeq(h.bytes, k + 1, Len(h.bytes))
        IN
        /\ Len(frame.atoms) = 1
        /\ a.atom.backtrack = 0
        /\ a.atom.bytes = SubSeq(rest, 1, Len(a.atom.bytes))
        /\ a.code_loc.fwd = start.fwd + CodeLength(prefix)
        /\ a.code_loc.bck_seq_id = b.seq_id
        /\ a.code_loc.bck = b.len - CodeLength(prefix)
        /\ f.len = start.fwd + CodeLength(h.bytes)
        /\ b.len = start.bck + CodeLength(h.bytes)
        /\ Decode(f, start.fwd, a.code_loc.fwd) = prefix
        /\ Decode(f, a.code_loc.fwd, f.len) = rest
        /\ Decode(b, start.bck, a.code_loc.bck) = Reverse(rest)
        /\ Decode(b, a.code_loc.bck, b.len) = Reverse(prefix)
C24_LiteralCodeLoc == [][C24_Step]_vars

\* The atom of the long literal starts two bytes into it, after a byte that
\* takes two bytes of code: three bytes of code on each side.
C24_Witness ==
    /\ ret = "Ok" /\ hir = HirLiteral(LongLiteral)
    /\ Len(atoms) = 1
    /\ atoms[1].atom.bytes = SubSeq(LongLiteral, 3, 6)
    /\ atoms[1].code_loc = Loc(3, 0, 4)

(***************************************************************************)
(* The locations that a concat post-visit returns for its children.        *)
(***************************************************************************)
\* The location of child i (1 = the first child) as the claim gives it.
ChildLocationAfter(i) ==
    Loc(ChildLocations[i].fwd, Receiving.seq_id, StartOf(i) + ChildChunks[i].len)
\* The child at which the atoms of the concat start (0 if there are none).
BestSuffix ==
    LET h == NodeAt(hir, pc.path) IN
    BestOfSuffixes([i \in 1..Len(h.subs) |-> Extract(h.subs[i])],
                   [i \in 1..Len(h.subs) |-> Loc(i, 0, 0)], 1,
                   <<None, SeqQualityMin, Loc(0, 0, 0)>>)[3].fwd

\* C25: the locations returned by visit_post_concat have, for each child,
\* fwd = the forward offset where the code of the child starts,
\* bck_seq_id = the id of the receiving backward stream and bck = the offset
\* in that stream right after the spliced chunk of the child, which is where
\* the chunk of the previous child begins and the end of the stream for the
\* first child; the atoms that the roll-up of the concat takes, which start
\* at one of the children, carry the location of that child.
C25_Step ==
    (IsConcatPost /\ ret' = "") =>
        LET n == Len(ChildChunks)
            top == Len(best_atoms_stack)
            r == visit_post_concat([Self EXCEPT !.depth = @ - 1], n)
            frame == best_atoms_stack'[top]
        IN
        /\ r[2] = [i \in 1..n |-> ChildLocationAfter(i)]
        /\ \A i \in 1..n :
              /\ ChildLocations[i].fwd =
                     forward_code.len - LenFrom(ChildChunks, i)
              /\ ChildLocationAfter(i).bck =
                     IF i = 1 THEN ReceivingAfter.len ELSE StartOf(i - 1)
              /\ Slice(ReceivingAfter, StartOf(i), ChildLocationAfter(i).bck)
                     = Slice(ChildChunks[i], 0, ChildChunks[i].len)
        /\ ReceivingAfter.seq_id = Receiving.seq_id
        /\ frame # r[1].best_atoms_stack[top] =>
              \E b \in {BestSuffix} :
                  /\ b \in 1..n
                  /\ {frame.atoms[k].code_loc : k \in 1..Len(frame.atoms)}
                         = {ChildLocationAfter(b)}
C25_ConcatLocations == [][C25_Step]_vars

\* (xy)*a1a1 as a concat of three: the atom a1a1 starts at the second
\* child, past the code of the first child in the forward stream and past
\* the chunks of the third and the second child in the backward stream.
C25_Witness ==
    /\ ret = "" /\ pc.cb = "finish"
    /\ hir.kind = "Concat" /\ Len(hir.subs) = 3
    /\ hir.subs[1].kind = "Repetition"
    /\ origins = <<Origin("roll-up", 0)>>
    /\ Len(best_atoms_stack[1].atoms) = 1
    /\ best_atoms_stack[1].atoms[1].atom.bytes = ShortLiteral \o ShortLiteral
    /\ best_atoms_stack[1].atoms[1].code_loc =
           Loc(forward_code.len - 2 * Len(ShortLiteral), 0, 2 * Len(ShortLiteral))

(***************************************************************************)
(* The counters of a frame agree with its atoms.                           *)
(***************************************************************************)
FrameConsistent(f) ==
    /\ f.exact_atoms = Cardinality({k \in 1..Len(f.atoms) : f.atoms[k].atom.exact})
    /\ IF f.atoms = <<>> THEN f.min_quality = I32_MIN
       ELSE /\ \A k \in 1..Len(f.atoms) :
                  f.min_quality <= atom_quality(f.atoms[k].atom.bytes)
            /\ \E k \in 1..Len(f.atoms) :
                  f.min_quality = atom_quality(f.atoms[k].atom.bytes)

\* C26: in every state, every frame of best_atoms_stack has exact_atoms
\* equal to the number of its atoms that are exact and min_quality equal to
\* the least quality of its atoms (i32::MIN for a frame without atoms); a
\* frame made by an alternation merge, whose exact_atoms is the one of the
\* first alternative, is no exception.
C26_FramesConsistent ==
    \A i \in 1..Len(best_atoms_stack) : FrameConsistent(best_atoms_stack[i])

\* A frame made by a merge, with atoms from two or more alternatives, is on
\* the stack while the traversal goes on.
C26_Witness ==
    /\ ret = "" /\ pc.cb \in {"pre", "in"}
    /\ \E i \in 1..Len(best_atoms_stack) :
          /\ origins[i].by = "merge"
          /\ Len(best_atoms_stack[i].atoms) >= 2
          /\ FrameConsistent(best_atoms_stack[i])

(***************************************************************************)
(* The forward location of the atoms rolled up at a repetition.            *)
(***************************************************************************)
IsRepetitionAt(cb) ==
    ret = "" /\ pc.cb = cb /\ NodeAt(hir, pc.path).kind = "Repetition"
\* The bookmark that holds the location taken first by the pre-visit of the
\* repetition at pc.path, given the bookmarks bs: for e{0,max} the location
\* of the split lies under the location of the body.
FirstOfRepetition(bs) ==
    LET h == NodeAt(hir, pc.path)
        k == IF h.min = 0 /\ h.max # None THEN 2 ELSE 1
    IN bs[Len(bs) + 1 - k]

\* C27: for every repetition, whatever its min and max, the atoms that its
\* post-visit rolls up have for code_loc.fwd the forward offset of the first
\* instruction emitted for the node, which is the forward location at the
\* pre-visit of the node: the location of the leading split when min = 0.
C27_Step ==
    /\ (IsRepetitionAt("pre") /\ ret' = "") =>
           FirstOfRepetition(bookmarks').fwd = forward_code.len
    /\ (IsRepetitionAt("post") /\ ret' = "") =>
           LET top == Len(best_atoms_stack)
               frame == best_atoms_stack'[top]
           IN frame # BeforeRollUp.best_atoms_stack[top] =>
                  \A k \in 1..Len(frame.atoms) :
                      frame.atoms[k].code_loc.fwd = FirstOfRepetition(bookmarks).fwd
C27_RepetitionForwardLoc == [][C27_Step]_vars

(***************************************************************************)
(* The locations of the returned atoms.                                    *)
(***************************************************************************)
\* C28: every atom returned by compile has code_loc.bck_seq_id = 0, the id
\* of the returned backward code, code_loc.fwd within 0..length of the
\* forward code and code_loc.bck within 0..length of the backward code; no
\* returned atom refers to a chunk or to an offset outside the returned code.
C28_ReturnedLocations ==
    ret = "Ok" =>
        /\ backward_code.seq_id = 0
        /\ \A k \in 1..Len(atoms) :
              /\ atoms[k].code_loc.bck_seq_id = 0
              /\ atoms[k].code_loc.fwd \in 0..forward_code.len
              /\ atoms[k].code_loc.bck \in 0..backward_code.len

\* Atoms found in a chunk of a concat nested in a concat, past the start of
\* the code, are returned.
C28_Witness ==
    /\ ret = "Ok"
    /\ hir.kind = "Concat" /\ hir.subs[2].kind = "Concat"
    /\ atoms # <<>>
    /\ atoms[1].code_loc.fwd > 0
    /\ atoms[1].code_loc.bck > 0
    /\ atoms[1].code_loc.bck_seq_id = 0

(***************************************************************************)
(* Locations are used with the backward code they were taken in.           *)
(***************************************************************************)
\* Number of bookmarks that the post-visit of the node h pops and then
\* patches, clones from or subtracts.
BookmarksUsed(h) ==
    CASE h.kind = "Alternation" -> 2 * Len(h.subs)
      [] h.kind = "Repetition" -> IF h.min = 0 /\ h.max # None THEN 2 ELSE 1
      [] OTHER -> 0

\* C29: the post-visits of alternations and repetitions, the only callers
\* of patch_instr, patch_split_n, emit_clone and Location::sub, apply them
\* to the bookmarks they pop and to locations taken from the current
\* backward code; each of these bookmarks has the bck_seq_id of the current
\* backward code (the top chunk, or the root stream when there is no chunk),
\* which stays the current one throughout the post-visit.
C29_Step ==
    (ret = "" /\ pc.cb = "post"
         /\ NodeAt(hir, pc.path).kind \in {"Alternation", "Repetition"}) =>
        LET h == NodeAt(hir, pc.path)
            current == backward_code_of(Self)
        IN
        /\ Len(bookmarks) >= BookmarksUsed(h)
        /\ \A k \in 1..BookmarksUsed(h) :
              Bookmark(Self, k).bck_seq_id = current.seq_id
        /\ location(Self).bck_seq_id = current.seq_id
        /\ ret' = "" =>
              /\ Len(bookmarks') = Len(bookmarks) - BookmarksUsed(h)
              /\ Len(backward_code_chunks') = Len(backward_code_chunks)
              /\ BackwardAfter.seq_id = current.seq_id
C29_SameChunk == [][C29_Step]_vars

\* An alternation and a repetition inside chunks of a concat have been
\* patched while a chunk with an id other than 0 was the current backward
\* code.
C29_Witness ==
    /\ ret = "" /\ pc.cb \in {"in", "post"}
    /\ backward_code_chunks # <<>>
    /\ LET s == backward_code_chunks[Len(backward_code_chunks)] IN
       /\ s.seq_id > 0
       /\ \E o \in DOMAIN s.at :
              s.at[o].op \in {"SPLIT_N", "SPLIT_A", "SPLIT_B"} /\ s.at[o].patches = 1

(***************************************************************************)
(* The seq ids of the chunks.                                              *)
(***************************************************************************)
ChunkIdsIncrease ==
    /\ backward_code.seq_id = 0
    /\ \A i \in 1..Len(backward_code_chunks) :
          /\ backward_code_chunks[i].seq_id > 0
          /\ i > 1 => backward_code_chunks[i].seq_id
                          > backward_code_chunks[i - 1].seq_id
C30_Step ==
    (IsConcatPost /\ ret' = "") =>
        LET n == Len(ChildChunks)
            ids == {ChildChunks[i].seq_id : i \in 1..n}
            top == Len(best_atoms_stack)
            old == best_atoms_stack[top]
            new == BeforeRollUp.best_atoms_stack[top]
        IN
        /\ Cardinality(ids) = n
        /\ Receiving.seq_id \notin ids
        /\ \A i \in 1..n : ChildChunks[i].seq_id > Receiving.seq_id
        /\ Len(new.atoms) = Len(old.atoms)
        /\ \A k \in 1..Len(old.atoms) :
              IF old.atoms[k].code_loc.bck_seq_id \in ids
              THEN \E i \in 1..n :
                      /\ ChildChunks[i].seq_id = old.atoms[k].code_loc.bck_seq_id
                      /\ Aligned(ChildChunks[i], old.atoms[k].code_loc.bck)
                      /\ new.atoms[k].code_loc.bck_seq_id = Receiving.seq_id
              ELSE new.atoms[k] = old.atoms[k]

\* C30: in every state the seq ids of the chunks on backward_code_chunks
\* grow strictly from the bottom to the top and are all greater than 0, the
\* id of the root backward code; hence the n chunks that a concat post-visit
\* consumes have n different ids, none of them the id of the receiving
\* stream, an atom of the top frame is relocated only if it lies in one of
\* these chunks, and the atoms of other chunks or of the receiving stream
\* stay as they are.
C30_ChunkIds == []ChunkIdsIncrease /\ [][C30_Step]_vars

\* Three chunks are open, one inside the other; the top frame holds an atom
\* found in the chunk below the top one.
C30_Witness ==
    /\ ret = ""
    /\ Len(backward_code_chunks) >= 3
    /\ best_atoms_stack # <<>>
    /\ \E k \in 1..Len(Last(best_atoms_stack).atoms) :
          Last(best_atoms_stack).atoms[k].code_loc.bck_seq_id
              = backward_code_chunks[Len(backward_code_chunks) - 1].seq_id

(***************************************************************************)
(* The forward and the backward code have the same length.                 *)
(***************************************************************************)
RECURSIVE TotalLen(_)
TotalLen(chunks) ==
    IF chunks = <<>> THEN 0 ELSE Head(chunks).len + TotalLen(Tail(chunks))

\* C31: between any two callbacks of the traversal, and once compile has
\* returned Ok, the length in bytes of forward_code is the length of the
\* root backward_code plus the lengths of all the chunks on
\* backward_code_chunks; in particular the two returned streams have the
\* same length.
C31_SameLength ==
    ret \in {"", "Ok"} =>
        /\ forward_code.len = backward_code.len + TotalLen(backward_code_chunks)
        /\ ret = "Ok" => forward_code.len = backward_code.len

\* Code lies in the root backward code and in two chunks at once.
C31_Witness ==
    /\ ret = ""
    /\ backward_code.len > 0
    /\ Len(backward_code_chunks) >= 2
    /\ \A i \in 1..Len(backward_code_chunks) : backward_code_chunks[i].len > 0
    /\ forward_code.len = backward_code.len + TotalLen(backward_code_chunks)

====
